---- MODULE Spec2Model ----
(***************************************************************************)
(* Model of the data-bearing views of the Smart DataGuard / Muhkam         *)
(* frontend: fetch-on-mount containers, the categorical aggregators and    *)
(* the histogram binner.  One behaviour follows one mounted view: Init     *)
(* picks the view, the actions are its asynchronous continuations.         *)
(***************************************************************************)
EXTENDS Integers, Sequences, FiniteSets, TLC

VARIABLES
  comp,         \* the view this behaviour follows
  step,         \* the histogram's step prop
  mounted,      \* the view is mounted (also the closure flag `mounted`)
  pending,      \* fetches in flight
  loads,        \* fetches started so far
  loading,      \* useState loading
  error,        \* useState error / err : Null or <<msg>>
  data,         \* useState data / rows / scores / docs / stats
  lateSetters,  \* history: state setters invoked after the view unmounted
  lastLoad,     \* history: outcome of the latest settled fetch
  lastCount,    \* history: usable items in the latest successful response
  unhandled,    \* history: a continuation ended in an unhandled rejection
  isDark,       \* useState isDark / dark of a theme-aware chart
  session,      \* the auth client's session: Null or <<access token>>
  issued,       \* access tokens the auth provider has issued so far
  call,         \* the gateway call in progress or last completed
  made,         \* gateway calls made so far
  owner,        \* the theme control that is mounted
  theme,        \* useState theme
  rootDark,     \* <html> carries class 'dark'
  saved,        \* localStorage key 'theme': Null or <<string>>
  prefersDark,  \* matchMedia('(prefers-color-scheme: dark)').matches
  effectDue,    \* the [theme] effect is scheduled and has not run yet
  listening,    \* the prefers-color-scheme listener is registered
  chosen,       \* history: a theme button was pressed
  mountTheme,   \* history: what the initialiser saw and returned
  lastSystem,   \* history: what the latest system scheme change did
  fn,           \* the pure function under evaluation
  args,         \* its arguments
  result,       \* Null until it has returned, then <<value>>
  dropKind,     \* the FileDrop component the upload page renders
  file,         \* UploadPage useState file: Null or <<name>>
  isUploading,  \* UploadPage useState isUploading
  progress,     \* UploadPage useState progress
  err,          \* UploadPage useState err: Null or <<msg>>
  uphase,       \* where doUpload stands: idle, posting or reloading
  posts,        \* POST /upload requests in flight
  uploads,      \* POST /upload requests issued so far
  reloads,      \* load() calls made by doUpload so far
  drag,         \* FileDrop useState drag / dragOver
  picker,       \* the browser's file dialog is open
  calledDisabled, \* history: onFiles was called while disabled was true
  litDisabled,  \* history: the highlight was turned on while disabled
  lastUpload,   \* history: the page's state when doUpload last finished
  uploadToast,  \* history: the variant of the upload page's latest toast
  now,          \* the clock, in units of a quarter of the toast delay
  toasts,       \* ToastProvider useState toasts
  timers,       \* pending setTimeout callbacks of toast()
  toastsMade,   \* toasts added so far
  dismissedToasts,\* history: the toasts dismissed by their button
  removedOther, \* history: a dismiss removed another toast as well
  staleTimerActed,\* history: the timer of a dismissed toast removed something
  question,     \* QAPage useState q
  qaLoading,    \* QAPage useState loading
  messages,     \* QAPage useState messages
  qaInflight,   \* POST /qa requests in flight
  asks,         \* POST /qa requests issued so far
  outcomes,     \* history: how the requests settled, in order
  lastAsk,      \* history: what ask() saw when it last issued a request
  refused,      \* history: ask() returned early while a request was in flight
  dsn,          \* DbAuditPage useState dsn
  facts,        \* useState facts: Null or <<facts>>
  checks,       \* useState checks: Null or <<rows>>
  loadingFacts, \* useState loadingFacts
  loadingAudit, \* useState loadingAudit
  factsInflight,\* GET /db/facts requests in flight
  auditInflight,\* GET /db/audit requests in flight
  dbCalls,      \* requests issued by the page so far
  issuedEmpty,  \* history: a request was issued with an empty DSN
  dbToast,      \* history: the variant of the page's latest toast
  signedIn,     \* the auth client holds a session
  hasOrg,       \* the user's profile row has an org_id
  pendingOnboarding,\* localStorage 'pendingOnboarding': Null or <<payload>>
  regPhase,     \* where Register.onRegister stands
  gateMounted,  \* an AuthGate is mounted (its closure flag mounted)
  ready,        \* AuthGate useState ready
  authed,       \* AuthGate useState authed
  gatePhase,    \* where AuthGate's finish() stands
  outPhase,     \* where Sidebar.onLogout stands
  lastEvent,    \* history: session present in the latest auth event the gate received
  removedBy,    \* history: what removed the entry last
  lastRpcError, \* history: the entry before and after the latest failed RPC
  authSteps     \* sign-ups, sign-ins, expiries and logouts so far

viewVars == <<comp, step, mounted, pending, loads, loading, error, data,
              lateSetters, lastLoad, lastCount, unhandled, isDark>>
gatewayVars == <<session, issued, call, made>>
themeVars == <<owner, theme, rootDark, saved, prefersDark, effectDue,
               listening, chosen, mountTheme, lastSystem>>
calcVars == <<fn, args, result>>
uploadVars == <<dropKind, file, isUploading, progress, err, uphase, posts,
                uploads, reloads, drag, picker, calledDisabled, litDisabled,
                lastUpload, uploadToast>>
toastVars == <<now, toasts, timers, toastsMade, dismissedToasts, removedOther, staleTimerActed>>
qaVars == <<question, qaLoading, messages, qaInflight, asks, outcomes, lastAsk, refused>>
dbVars == <<dsn, facts, checks, loadingFacts, loadingAudit, factsInflight, auditInflight, dbCalls, issuedEmpty, dbToast>>
authVars == <<signedIn, hasOrg, pendingOnboarding, regPhase, gateMounted, ready, authed, gatePhase, outPhase, lastEvent, removedBy, lastRpcError, authSteps>>
pageVars == <<uploadVars, toastVars, qaVars, dbVars, authVars>>

vars == <<viewVars, gatewayVars, themeVars, calcVars, pageVars>>

----------------------------------------------------------------------------
(* Bounds *)
MaxRows   == 3    \* rows in a categorical response
MaxScores == 3    \* rows in a scores response
MaxStep   == 5    \* largest step prop
MaxDocs   == 2    \* documents in a /reports/documents response
MaxLoads  == 3    \* loads a report page starts
DemoSeeds == 1    \* outcomes of the random demo fallback that are enumerated
MaxTokens == 3    \* access tokens the auth provider issues
MaxCalls  == 2    \* gateway calls one behaviour makes
MaxBins   == 6    \* bars of a chart that is coloured by rank
MaxSamples == 4   \* scores the legacy histogram summarises
MaxFetched == 4   \* document rows a ranking groups

(* Program constants *)
DemoLen  == 180
DemoBase == 60
DemoSpan == 40

----------------------------------------------------------------------------
(* JavaScript values *)
Null == <<>>
Some(v) == <<v>>
Get(o) == o[1]

\* `x ?? d`
Coalesce(o, d) == IF o = Null THEN d ELSE Get(o)

\* truthiness of a string-or-null state value
Truthy(o) == o # Null /\ Get(o) # ""

\* `e?.message || d`
MsgOr(m, d) == IF m = "" THEN d ELSE m

\* `e?.message ?? d` (the message of a thrown Error is a string, never null)
MsgCoalesce(m, d) == m

RECURSIVE SumSeq(_)
SumSeq(s) == IF s = <<>> THEN 0 ELSE Head(s) + SumSeq(Tail(s))

MaxOf(S) == CHOOSE x \in S : \A y \in S : y <= x
MinOf(S) == CHOOSE x \in S : \A y \in S : x <= y

Range(s) == {s[i] : i \in 1..Len(s)}

SeqsUpTo(S, n) == UNION {[1..k -> S] : k \in 0..n}

\* Math.round of the non-negative rational p/q (round half up)
RoundDiv(p, q) == (2 * p + q) \div (2 * q)

\* positions of keys[1..n] in stable descending order
RECURSIVE OrderUpTo(_, _)
OrderUpTo(keys, n) ==
  IF n = 0 THEN <<>>
  ELSE LET prev == OrderUpTo(keys, n - 1)
           pos  == Cardinality({j \in 1..(n - 1) : keys[prev[j]] >= keys[n]})
       IN SubSeq(prev, 1, pos) \o <<n>> \o SubSeq(prev, pos + 1, n - 1)

\* Array.prototype.sort((a, b) => key(b) - key(a)): stable, descending
SortDescBy(s, keys) ==
  LET ord == OrderUpTo(keys, Len(s)) IN [i \in 1..Len(s) |-> s[ord[i]]]

----------------------------------------------------------------------------
(* Histogram binner: ComplianceHistogram *)

\* a fetched JavaScript value of a score column
JsNum(v) == [t |-> "num", v |-> v]
JsNull   == [t |-> "null", v |-> 0]
JsUndef  == [t |-> "undef", v |-> 0]
JsText   == [t |-> "text", v |-> 0]

\* Number(x): null converts to 0, undefined and non-numeric text to NaN
NumberOf(x) ==
  CASE x.t = "num"  -> [finite |-> TRUE, v |-> x.v]
    [] x.t = "null" -> [finite |-> TRUE, v |-> 0]
    [] OTHER        -> [finite |-> FALSE, v |-> 0]

\* r?.compliance_score ?? r?.score
ScoreField(r) ==
  IF r.compliance_score.t \in {"null", "undef"} THEN r.score ELSE r.compliance_score

RECURSIVE FiniteVals(_)
\* data.map(r => Number(r?.compliance_score ?? r?.score)).filter(Number.isFinite)
FiniteVals(rows) ==
  IF rows = <<>> THEN <<>>
  ELSE LET n == NumberOf(ScoreField(Head(rows)))
       IN (IF n.finite THEN <<n.v>> ELSE <<>>) \o FiniteVals(Tail(rows))

\* Array.from({length: 180}, () => Math.round(60 + Math.random() * 40)):
\* every outcome has DemoLen values in DemoBase..DemoBase+DemoSpan
DemoSamples ==
  {[i \in 1..DemoLen |-> DemoBase + ((i * k) % (DemoSpan + 1))] : k \in 0..DemoSeeds}

\* Math.floor(a / s) and Math.ceil(a / s) for an integer a and s > 0
FloorDiv(a, s) == a \div s
CeilDiv(a, s)  == 0 - ((0 - a) \div s)

minVal(sc) == MinOf(Range(sc))
maxVal(sc) == MaxOf(Range(sc))

start(sc, s) == FloorDiv(minVal(sc), s) * s

endNoExtra(sc, s) == CeilDiv(maxVal(sc), s) * s
end(sc, s) == CeilDiv(maxVal(sc), s) * s + s

\* for (let b = start; b < end; b += step) bins.push([b, b + step])
RECURSIVE binsFrom(_, _, _)
binsFrom(b, e, s) == IF b < e THEN <<[lo |-> b, hi |-> b + s]>> \o binsFrom(b + s, e, s) ELSE <<>>

bins(sc, s) == binsFrom(start(sc, s), end(sc, s), s)

InBinClosed(x, bin) == x >= bin.lo /\ x <= bin.hi
\* s >= b0 && s < b1
InBin(x, bin) == x >= bin.lo /\ x < bin.hi

counts(sc, s) ==
  LET bs == bins(sc, s)
  IN [j \in 1..Len(bs) |-> Cardinality({i \in 1..Len(sc) : InBin(sc[i], bs[j])})]

\* `${b0}-${b1 - 1}` as the pair of numbers it prints
labels(sc, s) ==
  LET bs == bins(sc, s) IN [j \in 1..Len(bs) |-> <<bs[j].lo, bs[j].hi - 1>>]

\* (b0 + b1) / 2, kept as twice the center
centers2(sc, s) ==
  LET bs == bins(sc, s) IN [j \in 1..Len(bs) |-> bs[j].lo + bs[j].hi]

\* scores.reduce((acc, n) => acc + n, 0) / (scores.length || 1), as a fraction
mean(sc) == [num |-> SumSeq(sc), den |-> IF Len(sc) = 0 THEN 1 ELSE Len(sc)]

----------------------------------------------------------------------------
(* Categorical aggregators *)

Cats      == {"Tech", "Finance"}
CountVals == {0, 5, 10, 40}
DocTypes  == {"pdf", "txt", ""}

\* a row of a grouped view: industry / violations (or c), both nullable
TableRows == [cat : {Null} \cup {Some(c) : c \in Cats},
              cnt : {Null} \cup {Some(n) : n \in CountVals}]

\* the key PostgreSQL orders a nullable count by under ORDER BY ... DESC with
\* nulls first or nulls last
OrderKey(r, nullsFirst) ==
  IF r.cnt = Null THEN (IF nullsFirst THEN MaxOf(CountVals) + 1 ELSE 0 - 1) ELSE Get(r.cnt)

\* .order('violations', { ascending: false }) / .order('c', { ascending: false })
ServerOrder(rows, nullsFirst) ==
  SortDescBy(rows, [i \in 1..Len(rows) |-> OrderKey(rows[i], nullsFirst)])

RECURSIVE AscSeq(_)
AscSeq(S) == IF S = {} THEN <<>> ELSE <<MinOf(S)>> \o AscSeq(S \ {MinOf(S)})

\* new Map filled by forEach, then Array.from(map, ...): one bucket per key, in
\* the order in which each key first occurs
GroupCount(keys) ==
  LET firsts == AscSeq({i \in 1..Len(keys) : \A j \in 1..(i - 1) : keys[j] # keys[i]})
  IN [n \in 1..Len(firsts) |->
        [type |-> keys[firsts[n]],
         c    |-> Cardinality({i \in 1..Len(keys) : keys[i] = keys[firsts[n]]})]]

DocumentsByTypeBucketsReversed(docRows) ==
  LET g == GroupCount([i \in 1..Len(docRows) |->
                         Coalesce(docRows[i].content_type, "Unknown")])
      b == [i \in 1..Len(g) |-> g[Len(g) + 1 - i]]
  IN SortDescBy(b, [i \in 1..Len(b) |-> b[i].c])

\* DocumentsByType (conic donut): k = r?.content_type ?? 'Unknown', then
\* .sort((a, b) => b.c - a.c)
DocumentsByTypeBuckets(docRows) ==
  LET b == GroupCount([i \in 1..Len(docRows) |-> Coalesce(docRows[i].content_type, "Unknown")])
  IN SortDescBy(b, [i \in 1..Len(b) |-> b[i].c])

\* DocumentsByType (pie): k = r.content_type || 'Unknown', no sort
DocumentsByTypePieBuckets(docRows) ==
  GroupCount([i \in 1..Len(docRows) |->
                IF Truthy(docRows[i].content_type) THEN Get(docRows[i].content_type)
                ELSE "Unknown"])

\* CompaniesByIndustry: (data ?? []).map(r => ({industry: r.industry ?? "Unknown", count: r.c ?? 0}))
CompaniesMap(rows) ==
  [i \in 1..Len(rows) |-> [cat |-> Some(Coalesce(rows[i].cat, "Unknown")),
                           cnt |-> Some(Coalesce(rows[i].cnt, 0))]]

\* Math.max(1, ...rows.map(r => r.violations ?? 0)); Math.max converts null to 0
maxNoFloor(rows) == MaxOf({0} \cup {Coalesce(rows[i].cnt, 0) : i \in 1..Len(rows)})
max(rows) == MaxOf({1} \cup {Coalesce(rows[i].cnt, 0) : i \in 1..Len(rows)})

pctFloor(val, m) == (val * 100) \div m
\* Math.round((val / max) * 100)
pct(val, m) == RoundDiv(val * 100, m)

\* (val / max) * 100 in tenths of a percent, before Math.round
pctTenths(val, m) == (val * 1000) \div m

\* ViolationsByIndustry: name = r.industry ?? 'Unknown', val = r.violations ?? 0
ViolationsSeries(rows) ==
  [i \in 1..Len(rows) |->
     [label |-> Some(Coalesce(rows[i].cat, "Unknown")),
      value |-> Coalesce(rows[i].cnt, 0),
      pct   |-> pct(Coalesce(rows[i].cnt, 0), max(rows))]]

\* InsightsPage card 1: the label is r.industry as fetched, the width
\* Math.round((r.c / max) * 100) with a null c converting to 0
InsightsSeries(rows) ==
  [i \in 1..Len(rows) |->
     [label |-> rows[i].cat,
      value |-> Coalesce(rows[i].cnt, 0),
      pct   |-> pct(Coalesce(rows[i].cnt, 0), max(rows))]]

\* CompaniesByIndustry: recharts bars over data, dataKey count / industry
CompaniesSeries(rows) ==
  [i \in 1..Len(rows) |->
     [label |-> rows[i].cat, value |-> Get(rows[i].cnt), pct |-> 0]]

\* DocumentsByType legend: pct = total ? Math.round((r.c / total) * 100) : 0
BucketSeries(b) ==
  LET total == SumSeq([i \in 1..Len(b) |-> b[i].c])
  IN [i \in 1..Len(b) |->
        [label |-> Some(b[i].type), value |-> b[i].c,
         pct |-> IF total = 0 THEN 0 ELSE pct(b[i].c, total)]]

----------------------------------------------------------------------------
(* Backend responses *)

Msgs == {"", "boom"}

\* the rows of the end-to-end scenarios
ScenarioRows ==
  << [cat |-> Some("Tech"), cnt |-> Some(40)],
     [cat |-> Some("Finance"), cnt |-> Some(10)],
     [cat |-> Null, cnt |-> Some(5)] >>
ScenarioScores == <<61, 64, 69, 70, 95>>
ScenarioScoreRows ==
  [i \in 1..Len(ScenarioScores) |->
     [compliance_score |-> JsNum(ScenarioScores[i]), score |-> JsNull]]

Failure(kind, m) == [kind |-> kind, rows |-> <<>>, msg |-> m]
Success(rows) == [kind |-> "ok", rows |-> rows, msg |-> ""]

\* what `await supabase.from(...).select(...)` settles to: {data}, {error}, or
\* a rejection
Failures == {Failure(k, m) : k \in {"err", "throw"}, m \in Msgs}

TableResponses ==
  {Success(r) : r \in SeqsUpTo(TableRows, MaxRows) \cup {ScenarioRows}} \cup Failures

ScoreVals == {0 - 3, 0, 4, 10}
ScoreRows ==
  [compliance_score : {JsNum(v) : v \in ScoreVals} \cup {JsNull, JsUndef},
   score : {JsNum(7), JsNull, JsText}]
ScoreResponses ==
  {Success(r) : r \in SeqsUpTo(ScoreRows, MaxScores) \cup {ScenarioScoreRows}} \cup Failures

DocRows == [content_type : {Null} \cup {Some(t) : t \in DocTypes}]
DocResponses == {Success(r) : r \in SeqsUpTo(DocRows, MaxRows)} \cup Failures

StatsResponses ==
  {Success(r) : r \in [1..3 -> {Null, Some(0), Some(7)}]} \cup Failures

\* what api.get settles to: the gateway rejects with a non-empty message
DocIds == {"d1", "d2"}
GatewayResponses ==
  {Success(r) : r \in SeqsUpTo(DocIds, MaxDocs)} \cup {Failure("throw", m) : m \in Msgs \ {""}}

----------------------------------------------------------------------------
(* State updates of one continuation.  React applies the setters called in   *)
(* one synchronous continuation as one update and drops them when the view  *)
(* has unmounted.                                                            *)

NoUpd == [data |-> Null, error |-> Null, loading |-> Null]
Upd(d, e, l) == [data |-> d, error |-> e, loading |-> l]

Called(upd) ==
  (IF upd.data # Null THEN {"data"} ELSE {}) \cup
  (IF upd.error # Null THEN {"error"} ELSE {}) \cup
  (IF upd.loading # Null THEN {"loading"} ELSE {})

Commit(upd) ==
  /\ data' = IF mounted /\ upd.data # Null THEN Get(upd.data) ELSE data
  /\ error' = IF mounted /\ upd.error # Null THEN Get(upd.error) ELSE error
  /\ loading' = IF mounted /\ upd.loading # Null THEN Get(upd.loading) ELSE loading
  /\ lateSetters' = IF mounted THEN lateSetters ELSE lateSetters \cup Called(upd)

Settle(resp, n) ==
  /\ pending' = pending - 1
  /\ lastLoad' = IF resp.kind = "ok" THEN "ok" ELSE "failed"
  /\ lastCount' = IF resp.kind = "ok" THEN n ELSE 0
  /\ UNCHANGED <<comp, step, mounted, loads, isDark>>
  /\ UNCHANGED <<gatewayVars, themeVars, calcVars, pageVars>>

----------------------------------------------------------------------------
(* The continuations after `await` *)

\* CompaniesByIndustry: every setter is behind `mounted`
CompaniesEffect(resp, nullsFirst) ==
  IF ~mounted THEN NoUpd
  ELSE IF resp.kind = "ok"
  THEN Upd(Some(CompaniesMap(ServerOrder(resp.rows, nullsFirst))), Null, Some(FALSE))
  ELSE Upd(Null, Some(Some(MsgOr(resp.msg, "Failed to load data"))), Some(FALSE))

\* ViolationsByIndustry: no mounted flag; `if (error) throw error`
ViolationsEffect(resp, nullsFirst) ==
  IF resp.kind = "ok"
  THEN Upd(Some(ServerOrder(resp.rows, nullsFirst)), Null, Some(FALSE))
  ELSE Upd(Null, Some(Some(MsgCoalesce(resp.msg, "Failed to load data"))), Some(FALSE))

InsightsEffectNoFinally(resp, nullsFirst) ==
  IF resp.kind = "ok"
  THEN Upd(Some(ServerOrder(resp.rows, nullsFirst)), Null, Some(FALSE))
  ELSE Upd(Null, Some(Some(MsgCoalesce(resp.msg, "Failed to load data"))), Null)
\* InsightsPage card 1: the same continuation as ViolationsByIndustry
InsightsEffect(resp, nullsFirst) ==
  IF resp.kind = "ok"
  THEN Upd(Some(ServerOrder(resp.rows, nullsFirst)), Null, Some(FALSE))
  ELSE Upd(Null, Some(Some(MsgCoalesce(resp.msg, "Failed to load data"))), Some(FALSE))

\* DocumentsByType (conic donut): group and sort on the client
DocumentsByTypeEffect(resp) ==
  IF resp.kind = "ok"
  THEN Upd(Some(DocumentsByTypeBuckets(resp.rows)), Null, Some(FALSE))
  ELSE Upd(Null, Some(Some(MsgCoalesce(resp.msg, "Failed to load documents"))), Some(FALSE))

\* DocumentsByType (pie): no try/catch and no error state; an error result
\* leaves the map empty, a rejection ends the continuation before any setter
DocumentsByTypePieEffect(resp) ==
  CASE resp.kind = "ok"  -> Upd(Some(DocumentsByTypePieBuckets(resp.rows)), Null, Some(FALSE))
    [] resp.kind = "err" -> Upd(Some(<<>>), Null, Some(FALSE))
    [] OTHER             -> NoUpd

HistogramEffectNoDemo(resp, demo) ==
  IF resp.kind = "throw"
  THEN Upd(Null, Some(Some(MsgOr(resp.msg, "Failed to load scores"))), Some(FALSE))
  ELSE IF ~mounted THEN Upd(Null, Null, Some(FALSE))
  ELSE Upd(Some(IF resp.kind = "ok" THEN FiniteVals(resp.rows) ELSE <<>>), Null, Some(FALSE))
\* ComplianceHistogram: `if (!mounted) return` sits inside try, so finally
\* still calls setLoading(false); catch has no guard; an error result is not
\* thrown and, like an empty result, is replaced by the random demo scores
HistogramEffect(resp, demo) ==
  IF resp.kind = "throw"
  THEN Upd(Null, Some(Some(MsgOr(resp.msg, "Failed to load scores"))), Some(FALSE))
  ELSE IF ~mounted THEN Upd(Null, Null, Some(FALSE))
  ELSE LET vals == IF resp.kind = "ok" THEN FiniteVals(resp.rows) ELSE <<>>
       IN Upd(Some(IF Len(vals) = 0 THEN demo ELSE vals), Null, Some(FALSE))

ZeroStats == <<0, 0, 0>>
\* StatsCards: any failing count rejects Promise.all; catch sets the error and
\* the zero-valued cards
StatsCardsEffect(resp) ==
  IF resp.kind = "ok"
  THEN Upd(Some([i \in 1..3 |-> Coalesce(resp.rows[i], 0)]), Null, Null)
  ELSE Upd(Some(ZeroStats), Some(Some(MsgCoalesce(resp.msg, "Failed to load stats"))), Null)

\* UploadPage.load: setDocs(d.items || []) or setErr(e.message || ...)
UploadLoadEffect(resp) ==
  IF resp.kind = "ok"
  THEN Upd(Some(resp.rows), Null, Null)
  ELSE Upd(Null, Some(Some(MsgOr(resp.msg, "Failed to fetch documents"))), Null)

\* AuditPage: .then(setRows(data.items || [])).catch(setErr(e.message))
AuditEffect(resp) ==
  IF resp.kind = "ok"
  THEN Upd(Some(resp.rows), Null, Null)
  ELSE Upd(Null, Some(Some(resp.msg)), Null)

----------------------------------------------------------------------------
(* The state machine *)

ChartComps == {"CompaniesByIndustry", "ViolationsByIndustry", "InsightsPage",
               "DocumentsByType", "DocumentsByTypePie", "ComplianceHistogram"}
ReportPages == {"UploadPage", "AuditPage"}
Comps == ChartComps \cup {"StatsCards"} \cup ReportPages
\* the charts that watch the class of <html> with a MutationObserver
ThemeAware == {"ComplianceHistogram", "CompaniesByIndustry", "DocumentsByTypePie"}

\* the parts of the program a behaviour does not follow stay as constructed
ViewIdle ==
  /\ comp = "none" /\ step = 5 /\ mounted = FALSE /\ pending = 0 /\ loads = 0
  /\ loading = FALSE /\ error = Null /\ data = <<>> /\ lateSetters = {}
  /\ lastLoad = "none" /\ lastCount = 0 /\ unhandled = FALSE
  /\ isDark = FALSE
NoCall == [via |-> "none", phase |-> "idle", atCall |-> Null, atSend |-> Null,
           auth |-> Null, requests |-> 0, raw |-> Null, settled |-> Null]
GatewayIdle == session = Null /\ issued = 0 /\ call = NoCall /\ made = 0
ThemeIdle ==
  /\ owner = "none" /\ theme = "light" /\ rootDark = FALSE /\ saved = Null
  /\ prefersDark = FALSE /\ effectDue = FALSE /\ listening = FALSE
  /\ chosen = FALSE
  /\ mountTheme = Null
  /\ lastSystem = Null
CalcIdle == fn = "none" /\ args = <<>> /\ result = Null
UploadIdle ==
  /\ dropKind = "none" /\ file = Null /\ isUploading = FALSE /\ progress = 0
  /\ err = Null /\ uphase = "idle" /\ posts = 0 /\ uploads = 0 /\ reloads = 0
  /\ drag = FALSE /\ picker = FALSE /\ calledDisabled = FALSE
  /\ litDisabled = FALSE /\ lastUpload = Null /\ uploadToast = "none"
ToastIdle == now = 0 /\ toasts = <<>> /\ timers = {} /\ toastsMade = 0 /\ dismissedToasts = {} /\ removedOther = FALSE /\ staleTimerActed = FALSE
QaIdle == question = "" /\ qaLoading = FALSE /\ messages = <<>> /\ qaInflight = 0 /\ asks = 0 /\ outcomes = <<>> /\ lastAsk = Null /\ refused = FALSE
DbIdle == dsn = "" /\ facts = Null /\ checks = Null /\ loadingFacts = FALSE /\ loadingAudit = FALSE /\ factsInflight = 0 /\ auditInflight = 0 /\ dbCalls = 0 /\ issuedEmpty = FALSE /\ dbToast = "none"
AuthIdle == signedIn = FALSE /\ hasOrg = FALSE /\ pendingOnboarding = Null /\ regPhase = "idle" /\ gateMounted = FALSE /\ ready = FALSE /\ authed = FALSE /\ gatePhase = "none" /\ outPhase = "idle" /\ lastEvent = Null /\ removedBy = "none" /\ lastRpcError = Null /\ authSteps = 0
PagesIdle == UploadIdle /\ ToastIdle /\ QaIdle /\ DbIdle /\ AuthIdle

\* the state after the first render and its mount effect: the fetch is in
\* flight, loading is useState(true) where the view has a loading flag; the
\* view mounts under the light theme (a mount under the dark theme is its
\* mirror image)
Init ==
  /\ comp \in Comps
  /\ step \in (IF comp = "ComplianceHistogram" THEN 1..MaxStep ELSE {5})
  /\ mounted = TRUE
  /\ pending = 1
  /\ loads = 1
  /\ loading = (comp \in ChartComps)
  /\ error = Null
  /\ data = <<>>
  /\ lateSetters = {}
  /\ lastLoad = "none"
  /\ lastCount = 0
  /\ unhandled = FALSE
  /\ isDark = FALSE
  /\ GatewayIdle /\ ThemeIdle /\ CalcIdle /\ PagesIdle

\* the effect's cleanup runs: `mounted = false`, the view is gone
Unmount ==
  /\ mounted
  /\ mounted' = FALSE
  /\ UNCHANGED <<comp, step, pending, loads, loading, error, data,
                 lateSetters, lastLoad, lastCount, unhandled, isDark>>
  /\ UNCHANGED <<gatewayVars, themeVars, calcVars, pageVars>>

CompaniesByIndustryFetched ==
  /\ comp = "CompaniesByIndustry" /\ pending > 0
  /\ \E resp \in TableResponses, nullsFirst \in BOOLEAN :
       Commit(CompaniesEffect(resp, nullsFirst)) /\ Settle(resp, Len(resp.rows))
  /\ UNCHANGED unhandled

ViolationsByIndustryFetched ==
  /\ comp = "ViolationsByIndustry" /\ pending > 0
  /\ \E resp \in TableResponses, nullsFirst \in BOOLEAN :
       Commit(ViolationsEffect(resp, nullsFirst)) /\ Settle(resp, Len(resp.rows))
  /\ UNCHANGED unhandled

InsightsPageFetched ==
  /\ comp = "InsightsPage" /\ pending > 0
  /\ \E resp \in TableResponses, nullsFirst \in BOOLEAN :
       Commit(InsightsEffect(resp, nullsFirst)) /\ Settle(resp, Len(resp.rows))
  /\ UNCHANGED unhandled

DocumentsByTypeFetched ==
  /\ comp = "DocumentsByType" /\ pending > 0
  /\ \E resp \in DocResponses : Commit(DocumentsByTypeEffect(resp)) /\ Settle(resp, Len(resp.rows))
  /\ UNCHANGED unhandled

DocumentsByTypePieFetched ==
  /\ comp = "DocumentsByTypePie" /\ pending > 0
  /\ \E resp \in DocResponses :
       /\ Commit(DocumentsByTypePieEffect(resp)) /\ Settle(resp, Len(resp.rows))
       /\ unhandled' = (unhandled \/ resp.kind = "throw")

ComplianceHistogramFetched ==
  /\ comp = "ComplianceHistogram" /\ pending > 0
  /\ \E resp \in ScoreResponses, demo \in DemoSamples :
       Commit(HistogramEffect(resp, demo)) /\ Settle(resp, Len(FiniteVals(resp.rows)))
  /\ UNCHANGED unhandled

StatsCardsFetched ==
  /\ comp = "StatsCards" /\ pending > 0
  /\ \E resp \in StatsResponses : Commit(StatsCardsEffect(resp)) /\ Settle(resp, Len(resp.rows))
  /\ UNCHANGED unhandled

\* runSens / runAudit (in finally) and doUpload (on success) call load() again
UploadPageLoad ==
  /\ comp = "UploadPage" /\ loads < MaxLoads
  /\ pending' = pending + 1
  /\ loads' = loads + 1
  /\ UNCHANGED <<comp, step, mounted, loading, error, data,
                 lateSetters, lastLoad, lastCount, unhandled, isDark>>
  /\ UNCHANGED <<gatewayVars, themeVars, calcVars, pageVars>>

UploadPageLoaded ==
  /\ comp = "UploadPage" /\ pending > 0
  /\ \E resp \in GatewayResponses : Commit(UploadLoadEffect(resp)) /\ Settle(resp, Len(resp.rows))
  /\ UNCHANGED unhandled

AuditPageFetched ==
  /\ comp = "AuditPage" /\ pending > 0
  /\ \E resp \in GatewayResponses : Commit(AuditEffect(resp)) /\ Settle(resp, Len(resp.rows))
  /\ UNCHANGED unhandled

ThemeSwitchedRefetch ==
  /\ comp \in ThemeAware /\ mounted
  /\ isDark' = ~isDark
  /\ loads' = IF loads < MaxLoads THEN loads + 1 ELSE loads
  /\ pending' = IF loads < MaxLoads THEN pending + 1 ELSE pending
  /\ loading' = TRUE
  /\ UNCHANGED <<comp, step, mounted, error, data,
                 lateSetters, lastLoad, lastCount, unhandled>>
  /\ UNCHANGED <<gatewayVars, themeVars, calcVars, pageVars>>

\* the class of <html> changes and the chart's MutationObserver callback
\* runs: setIsDark(root.classList.contains('dark')); the cleanup disconnects
\* the observer
ThemeSwitched ==
  /\ comp \in ThemeAware /\ mounted
  /\ isDark' = ~isDark
  /\ UNCHANGED <<comp, step, mounted, pending, loads, loading, error, data,
                 lateSetters, lastLoad, lastCount, unhandled>>
  /\ UNCHANGED <<gatewayVars, themeVars, calcVars, pageVars>>

Next ==
  \/ Unmount
  \/ ThemeSwitched
  \/ CompaniesByIndustryFetched
  \/ ViolationsByIndustryFetched
  \/ InsightsPageFetched
  \/ DocumentsByTypeFetched
  \/ DocumentsByTypePieFetched
  \/ ComplianceHistogramFetched
  \/ StatsCardsFetched
  \/ UploadPageLoad
  \/ UploadPageLoaded
  \/ AuditPageFetched

Spec == Init /\ [][Next]_vars

----------------------------------------------------------------------------
(* What a mounted view renders *)

\* loading ? ... : error ? ... : data.length === 0 ? ... : chart
RenderChain(l, e, d) ==
  IF l THEN {"loading"}
  ELSE IF Truthy(e) THEN {"error"}
  ELSE IF Len(d) = 0 THEN {"empty"} ELSE {"content"}

\* DocumentsByType (pie): loading, then "No data.", then the chart
RenderPie(l, d) ==
  IF l THEN {"loading"} ELSE IF Len(d) = 0 THEN {"empty"} ELSE {"content"}

\* InsightsPage: four independent conditionals
RenderInsights(l, e, d) ==
  (IF l THEN {"loading"} ELSE {}) \cup
  (IF Truthy(e) THEN {"error"} ELSE {}) \cup
  (IF ~l /\ ~Truthy(e) /\ Len(d) = 0 THEN {"empty"} ELSE {}) \cup
  (IF ~l /\ ~Truthy(e) /\ Len(d) > 0 THEN {"content"} ELSE {})

\* StatsCards: zero cards plus the message on error, the skeleton while
\* stats is null, the cards otherwise
RenderStats(e, d) ==
  IF Truthy(e) THEN {"content", "error"}
  ELSE IF d = Null THEN {"loading"} ELSE {"content"}

\* UploadPage / AuditPage: {err && ...}, the list, and its empty row
RenderReport(e, d) ==
  (IF Truthy(e) THEN {"error"} ELSE {}) \cup
  (IF Len(d) > 0 THEN {"content"} ELSE {"empty"})

Rendered ==
  IF ~mounted THEN {}
  ELSE CASE comp = "InsightsPage"       -> RenderInsights(loading, error, data)
         [] comp = "DocumentsByTypePie" -> RenderPie(loading, data)
         [] comp = "StatsCards"         -> RenderStats(error, data)
         [] comp \in ReportPages        -> RenderReport(error, data)
         [] OTHER                       -> RenderChain(loading, error, data)

TypeOK ==
  /\ comp \in Comps
  /\ step \in 1..MaxStep
  /\ mounted \in BOOLEAN
  /\ pending \in 0..MaxLoads
  /\ loads \in 1..MaxLoads
  /\ loading \in BOOLEAN
  /\ lateSetters \subseteq {"data", "error", "loading"}
  /\ lastLoad \in {"none", "ok", "failed"}
  /\ lastCount \in Nat
  /\ unhandled \in BOOLEAN
  /\ isDark \in BOOLEAN

----------------------------------------------------------------------------
(* Properties *)

\* the three render states: loading, error, content (data or the empty state)
Kinds(R) ==
  (R \cap {"loading", "error"}) \cup
  (IF R \cap {"content", "empty"} # {} THEN {"content"} ELSE {})

\* the series a categorical view draws from its state
Series ==
  CASE comp = "CompaniesByIndustry"  -> CompaniesSeries(data)
    [] comp = "ViolationsByIndustry" -> ViolationsSeries(data)
    [] comp = "InsightsPage"         -> InsightsSeries(data)
    [] OTHER                         -> BucketSeries(data)

HistogramShown == comp = "ComplianceHistogram" /\ "content" \in Rendered

\* C1: in every state in which the histogram is drawn, every score lies in
\* exactly one of the bins [lo, hi) built from start to end, and the bin
\* counts add up to the number of scores.
C1_EverySampleInOneBin ==
  HistogramShown =>
    LET bs == bins(data, step)
        cs == counts(data, step)
    IN /\ \A i \in 1..Len(data) :
            Cardinality({j \in 1..Len(bs) : InBin(data[i], bs[j])}) = 1
       /\ SumSeq(cs) = Len(data)

\* C1 witness: a histogram over scores in different bins whose largest score
\* is a multiple of step (the sample the extra final bin exists for).
C1_Witness ==
  /\ HistogramShown
  /\ Len(data) >= 2
  /\ minVal(data) < maxVal(data)
  /\ step > 1
  /\ maxVal(data) % step = 0

\* C2 (as stated): every mounted view renders exactly one of loading, error
\* and content.
C2_ExactlyOneState ==
  mounted => Cardinality(Kinds(Rendered)) = 1

\* C2 (amended): every chart container and the Insights page card renders
\* exactly one of loading, error and content; StatsCards renders the skeleton
\* alone, the cards alone, or on error the zero-valued cards together with the
\* message; a report page always renders its list (or the empty row), never a
\* loading state, and the error message in addition while err is set.
C2_RenderStates ==
  mounted =>
    /\ comp \in ChartComps => Cardinality(Kinds(Rendered)) = 1
    /\ comp = "StatsCards" =>
         /\ Rendered \in {{"loading"}, {"content"}, {"content", "error"}}
         /\ "error" \in Rendered => data = ZeroStats
    /\ comp \in ReportPages =>
         /\ "loading" \notin Rendered
         /\ "content" \in Kinds(Rendered)

\* C2 witness: the Insights page card, whose four conditionals are
\* independent, showing a failed fetch.
C2_Witness ==
  /\ comp = "InsightsPage" /\ mounted
  /\ lastLoad = "failed"
  /\ Rendered = {"error"}

\* C3 (as stated): no state setter of a fetch-on-mount chart container is
\* invoked after the container has unmounted.
C3_NoSetterAfterUnmount ==
  comp \in ChartComps => lateSetters = {}

\* C4 (as stated): when the latest load of a report page failed and its error
\* message is rendered, no previously loaded data is rendered with it.
C4_NoStaleContentWithError ==
  (comp \in ReportPages /\ lastLoad = "failed" /\ "error" \in Rendered)
    => "content" \notin Rendered

\* C5 (as stated): the series drawn by a categorical aggregator is sorted
\* non-increasing by count.
C5_SeriesSortedDescending ==
  (comp \in {"CompaniesByIndustry", "ViolationsByIndustry", "DocumentsByType"}
     /\ "content" \in Rendered)
    => \A i \in 1..(Len(Series) - 1) : Series[i].value >= Series[i + 1].value

PercentViews == {"ViolationsByIndustry", "InsightsPage"}

CountsPresent == \A i \in 1..Len(data) : data[i].cnt # Null

\* C6 (as stated): in every drawn series of rows with count >= 0, the element
\* with the largest count has percent-of-max 100.
C6_MaxElementIsFull ==
  (comp \in PercentViews /\ "content" \in Rendered /\ CountsPresent)
    => \A i \in 1..Len(Series) :
         (\A j \in 1..Len(Series) : Series[j].value <= Series[i].value)
            => Series[i].pct = 100

\* C6 (amended): the divisor max(1, max(counts)) is never zero; the element
\* with the largest count has percent-of-max 100 when that count is at least
\* 1, and when all counts are zero every percent is 0.
C6_PercentOfMax ==
  (comp \in PercentViews /\ "content" \in Rendered)
    => /\ max(data) >= 1
       /\ \A i \in 1..Len(Series) :
            (\A j \in 1..Len(Series) : Series[j].value <= Series[i].value)
               => Series[i].pct = (IF Series[i].value >= 1 THEN 100 ELSE 0)

\* C6 witness: a drawn series whose counts are all zero.
C6_Witness ==
  /\ comp \in PercentViews /\ "content" \in Rendered
  /\ Len(Series) >= 2
  /\ CountsPresent
  /\ \A i \in 1..Len(Series) : Series[i].value = 0

ScenarioShown ==
  comp \in PercentViews /\ "content" \in Rendered /\ data = ScenarioRows

EmptyFetchDone ==
  mounted /\ pending = 0 /\ lastLoad = "ok" /\ lastCount = 0

C10_FailureShowsError ==
  (mounted /\ pending = 0 /\ lastLoad = "failed"
     /\ comp \in {"ComplianceHistogram", "DocumentsByTypePie", "CompaniesByIndustry"})
    => Rendered = {"error"}

----------------------------------------------------------------------------
(* The remote data gateway (lib/api.ts) and the data hooks built on it      *)
(* (lib/hooks.ts).  One behaviour follows the calls of one caller, one at   *)
(* a time, while the auth provider signs in, signs out and refreshes.       *)

Callers == {"api", "useHealth", "useUpload", "useSensitivity", "useAudit"}
FileIds == {Null, Some(""), Some("f1")}

\* `a || b` on a string-or-undefined value
OrElse(o, d) == IF Truthy(o) THEN Get(o) ELSE d

\* what a request can come back with: a 2xx response, or an error `e` with
\* e.response.data.detail, e.response.data.message and e.message
HttpOutcomes ==
  [kind : {"ok"}, body : {"json"}, detail : {Null}, message : {Null},
   emsg : {Null}] \cup
  [kind : {"err"}, body : {""}, detail : {Null, Some(""), Some("detail")},
   message : {Null, Some(""), Some("message")},
   emsg : {Null, Some(""), Some("Network Error")}]

AuthorizationUnguarded(sess) ==
  Some(<<"Bearer", IF sess = Null THEN 0 ELSE Get(sess)>>)

\* the header the request interceptor leaves on the config
Authorization(sess) ==
  IF sess # Null THEN Some(<<"Bearer", Get(sess)>>) ELSE Null

msgNullish(e) ==
  Coalesce(e.detail, Coalesce(e.message, Coalesce(e.emsg, "Request failed")))

\* detail || message || e.message || 'Request failed'
msg(e) ==
  OrElse(e.detail, OrElse(e.message, OrElse(e.emsg, "Request failed")))

\* (r) => r, (e) => Promise.reject(new Error(msg))
responseInterceptor(r) ==
  IF r.kind = "ok"
  THEN [kind |-> "resolved", value |-> Some(r), message |-> ""]
  ELSE [kind |-> "rejected", value |-> Null, message |-> msg(r)]

\* useSensitivity / useAudit: enabled: !!file_id
enabled(via, file_id) ==
  via \in {"useSensitivity", "useAudit"} => Truthy(file_id)

retryOnce(via) == Some(1)

\* the retry option a hook passes to useQuery / useMutation: none does
retry(via) == Null

\* the retry default of the QueryClient the hooks run under
defaultRetry == 0

\* failed requests a caller re-issues on its own
retries(via) == IF via = "api" THEN 0 ELSE Coalesce(retry(via), defaultRetry)

GatewayInit ==
  /\ session \in {Null, Some(1)}
  /\ issued = (IF session = Null THEN 0 ELSE 1)
  /\ call = NoCall
  /\ made = 0
  /\ ViewIdle /\ ThemeIdle /\ CalcIdle /\ PagesIdle

\* supabase.auth.signInWithPassword succeeded
SignIn ==
  /\ session = Null /\ issued < MaxTokens
  /\ session' = Some(issued + 1)
  /\ issued' = issued + 1
  /\ UNCHANGED <<call, made, viewVars, themeVars, calcVars, pageVars>>

\* supabase.auth.signOut
SignOut ==
  /\ session # Null
  /\ session' = Null
  /\ UNCHANGED <<issued, call, made, viewVars, themeVars, calcVars, pageVars>>

\* the auth client replaced the access token of the running session
TokenRefreshed ==
  /\ session # Null /\ issued < MaxTokens
  /\ session' = Some(issued + 1)
  /\ issued' = issued + 1
  /\ UNCHANGED <<call, made, viewVars, themeVars, calcVars, pageVars>>

\* api.get / api.post is called, directly or by the queryFn / mutationFn of
\* an enabled hook; the request interceptor now awaits getSession()
GatewayCall ==
  /\ call.phase \in {"idle", "done"} /\ made < MaxCalls
  /\ \E via \in Callers, file_id \in FileIds :
       /\ enabled(via, file_id)
       /\ call' = [NoCall EXCEPT !.via = via, !.phase = "interceptor",
                                 !.atCall = session]
  /\ made' = made + 1
  /\ UNCHANGED <<session, issued, viewVars, themeVars, calcVars, pageVars>>

\* getSession() has resolved: the header is set from the session it returned
\* and the request is dispatched
RequestIntercepted ==
  /\ call.phase = "interceptor"
  /\ call' = [call EXCEPT !.phase = "sent", !.atSend = session,
                          !.auth = Authorization(session),
                          !.requests = @ + 1]
  /\ UNCHANGED <<session, issued, made, viewVars, themeVars, calcVars, pageVars>>

\* the request settles and the response interceptor runs; a caller with
\* retries left calls the gateway again
ResponseIntercepted ==
  /\ call.phase = "sent"
  /\ \E r \in HttpOutcomes :
       LET res == responseInterceptor(r) IN
       call' = IF res.kind = "rejected" /\ call.requests - 1 < retries(call.via)
               THEN [call EXCEPT !.phase = "interceptor", !.raw = Some(r)]
               ELSE [call EXCEPT !.phase = "done", !.raw = Some(r),
                                 !.settled = Some(res)]
  /\ UNCHANGED <<session, issued, made, viewVars, themeVars, calcVars, pageVars>>

GatewayNext ==
  \/ SignIn
  \/ SignOut
  \/ TokenRefreshed
  \/ GatewayCall
  \/ RequestIntercepted
  \/ ResponseIntercepted

GatewaySpec == GatewayInit /\ [][GatewayNext]_vars

\* C11: every request the gateway has dispatched carries 'Bearer <token>' with
\* the access token of the session that was active when it was dispatched,
\* never a token older than the session the call started under, and no
\* Authorization header when there was no session.
C11_BearerOfActiveSession ==
  call.phase \in {"sent", "done"} =>
    /\ call.atSend = Null => call.auth = Null
    /\ call.atSend # Null => call.auth = Some(<<"Bearer", Get(call.atSend)>>)
    /\ call.auth # Null /\ call.atCall # Null =>
         Get(call.auth)[2] >= Get(call.atCall)

\* a request dispatched with the refreshed token, the user signing out after
C11_Witness ==
  /\ call.phase = "sent"
  /\ call.atCall = Some(1)
  /\ call.atSend = Some(2)
  /\ call.auth = Some(<<"Bearer", 2>>)
  /\ session = Null

\* the first candidate that is neither missing nor empty
FirstNonEmpty(cands) ==
  LET ok == {i \in 1..Len(cands) : cands[i] # Null /\ cands[i] # Some("")}
  IN Get(cands[MinOf(ok)])

\* C12: a failed gateway call is rejected with an Error whose message is the
\* first non-empty of response.data.detail, response.data.message, the
\* error's own message and 'Request failed'; a successful response is
\* resolved unchanged.
C12_NormalizedRejection ==
  call.phase = "done" =>
    LET r == Get(call.raw)
        res == Get(call.settled)
    IN IF r.kind = "ok"
       THEN res.kind = "resolved" /\ res.value = Some(r)
       ELSE /\ res.kind = "rejected"
            /\ res.message = FirstNonEmpty(<<r.detail, r.message, r.emsg,
                                             Some("Request failed")>>)

\* an empty detail is skipped for the message field of the body
C12_Witness ==
  /\ call.phase = "done"
  /\ Get(call.raw).kind = "err"
  /\ Get(call.raw).detail = Some("")
  /\ Get(call.raw).message = Some("message")
  /\ Get(call.settled).kind = "rejected"
  /\ Get(call.settled).message = "message"

----------------------------------------------------------------------------
(* The gradient / colour interpolators.  A hex colour is the sequence of    *)
(* its six digits (letter case, which CSS ignores, is not kept); a          *)
(* position t and an interpolated channel are exact fractions num / den.    *)

Frac(n, d) == [num |-> n, den |-> d]

White == <<15, 15, 15, 15, 15, 15>>     \* '#ffffff'
Black == <<0, 0, 0, 0, 0, 0>>           \* '#000000'

\* ui.barFrom / ui.barTo
barFrom(dark) ==
  IF dark THEN <<14, 13, 14, 9, 15, 14>>      \* '#EDE9FE'
  ELSE <<14, 13, 14, 7, 15, 15>>              \* '#EDE7FF'
barTo(dark) ==
  IF dark THEN <<12, 4, 11, 5, 15, 13>>       \* '#C4B5FD'
  ELSE <<12, 3, 11, 2, 15, 15>>               \* '#C3B2FF'

\* CYAN_BASE, LAVENDER_BASE, PEACH_BASE and FALLBACKS
Bases ==
  { <<5, 10, 13, 9, 14, 6>>, <<12, 13, 11, 13, 15, 4>>,
    <<15, 7, 12, 9, 12, 1>>, <<11, 14, 14, 0, 15, 5>>,
    <<13, 7, 15, 2, 14, 14>>, <<15, 9, 14, 7, 13, 0>>,
    <<14, 9, 13, 7, 15, 11>> }

\* the blend amounts, in hundredths: theme.lighten and theme.darken are
\* 0.20, 0.38, 0.25 and 0.12
MixParts == 0..100

RECURSIVE parseInt16(_)
parseInt16(digits) ==
  IF digits = <<>> THEN 0
  ELSE 16 * parseInt16(SubSeq(digits, 1, Len(digits) - 1)) + digits[Len(digits)]

\* (n >> 16) & 255, (n >> 8) & 255, n & 255
hexToRgb(hex) ==
  LET n == parseInt16(hex)
  IN <<(n \div 65536) % 256, (n \div 256) % 256, n % 256>>

RECURSIVE toString16(_)
toString16(v) ==
  IF v < 16 THEN <<v>> ELSE toString16(v \div 16) \o <<v % 16>>

\* padStart(2, '0')
padStart2(s) == IF Len(s) < 2 THEN <<0>> \o s ELSE s

rgbToHex(r, g, b) ==
  padStart2(toString16(r)) \o padStart2(toString16(g)) \o padStart2(toString16(b))

lerpFromEnd(a, b, t) == Frac(b * t.den + (b - a) * t.num, t.den)

\* a + (b - a) * t
lerp(a, b, t) == Frac(a * t.den + (b - a) * t.num, t.den)

\* Math.round of an exact fraction
round(x) == RoundDiv(x.num, x.den)

barTOverLength(i, n) == IF n <= 1 THEN Frac(0, 1) ELSE Frac(i, n)

\* centers.length <= 1 ? 0 : i / (centers.length - 1)
barT(i, n) == IF n <= 1 THEN Frac(0, 1) ELSE Frac(i, n - 1)

\* idx / Math.max(rows.length - 1, 1)
rowT(idx, n) == Frac(idx, MaxOf({n - 1, 1}))

\* the colour of bar i (from 0) of n
barColor(dark, i, n) ==
  LET c0 == hexToRgb(barFrom(dark))
      c1 == hexToRgb(barTo(dark))
      r == round(lerp(c0[1], c1[1], barT(i, n)))
      g == round(lerp(c0[2], c1[2], barT(i, n)))
      b == round(lerp(c0[3], c1[3], barT(i, n)))
  IN [t |-> barT(i, n), rgb |-> <<r, g, b>>, hex |-> rgbToHex(r, g, b)]

barColors(dark, n) == [k \in 1..n |-> barColor(dark, k - 1, n)]

\* mix(aHex, bHex, p) with p in hundredths
mix(aHex, bHex, p) ==
  LET ar == parseInt16(SubSeq(aHex, 1, 2))
      ag == parseInt16(SubSeq(aHex, 3, 4))
      ab == parseInt16(SubSeq(aHex, 5, 6))
      br == parseInt16(SubSeq(bHex, 1, 2))
      bg == parseInt16(SubSeq(bHex, 3, 4))
      bb == parseInt16(SubSeq(bHex, 5, 6))
      rr == round(Frac(ar * 100 + (br - ar) * p, 100))
      rg == round(Frac(ag * 100 + (bg - ag) * p, 100))
      rb == round(Frac(ab * 100 + (bb - ab) * p, 100))
  IN rgbToHex(rr, rg, rb)

\* aquaGradient(t): the two lightness values 74 - 8t and 66 - 8t
aquaGradient(t) ==
  [l1 |-> Frac(74 * t.den - 8 * t.num, t.den),
   l2 |-> Frac(66 * t.den - 8 * t.num, t.den)]

ColorInit ==
  /\ fn \in {"barColors", "mix", "aquaGradient"}
  /\ args \in CASE fn = "barColors" -> [dark : BOOLEAN, n : 1..MaxBins]
               [] fn = "mix" -> [a : Bases, b : {White, Black}, p : MixParts]
               [] OTHER -> {[idx |-> i, n |-> n] : i \in 0..(MaxBins - 1), n \in 1..MaxBins}
  /\ (fn = "aquaGradient" => args.idx < args.n)
  /\ result = Null
  /\ ViewIdle /\ GatewayIdle /\ ThemeIdle /\ PagesIdle

\* the histogram renders: one colour per bin
BarColorsComputed ==
  /\ fn = "barColors" /\ result = Null
  /\ result' = Some(barColors(args.dark, args.n))
  /\ UNCHANGED <<fn, args, viewVars, gatewayVars, themeVars, pageVars>>

\* the pie renders a slice: mix(base, '#ffffff' / '#000000', amount)
MixComputed ==
  /\ fn = "mix" /\ result = Null
  /\ result' = Some(mix(args.a, args.b, args.p))
  /\ UNCHANGED <<fn, args, viewVars, gatewayVars, themeVars, pageVars>>

\* the Insights page renders row idx of n
AquaGradientComputed ==
  /\ fn = "aquaGradient" /\ result = Null
  /\ result' = Some([t |-> rowT(args.idx, args.n),
                      fill |-> aquaGradient(rowT(args.idx, args.n))])
  /\ UNCHANGED <<fn, args, viewVars, gatewayVars, themeVars, pageVars>>

ColorNext ==
  \/ BarColorsComputed
  \/ MixComputed
  \/ AquaGradientComputed

ColorSpec == ColorInit /\ [][ColorNext]_vars

\* C14: the interpolator returns exactly the 'from' colour at t = 0 and
\* exactly the 'to' colour at t = 1, so with two bins or more the first bar
\* of the histogram has colour barFrom and the last bar colour barTo.
C14_EndpointsExact ==
  result # Null =>
    /\ fn = "mix" /\ args.p = 0 => Get(result) = args.a
    /\ fn = "mix" /\ args.p = 100 => Get(result) = args.b
    /\ fn = "barColors" /\ args.n >= 2 =>
         /\ Get(result)[1].hex = barFrom(args.dark)
         /\ Get(result)[args.n].hex = barTo(args.dark)

\* a dark histogram of several bins whose middle bars are neither endpoint
C14_Witness ==
  /\ fn = "barColors" /\ result # Null
  /\ args.dark /\ args.n = MaxBins
  /\ Get(result)[1].hex = barFrom(TRUE)
  /\ Get(result)[MaxBins].hex = barTo(TRUE)
  /\ Get(result)[2].hex \notin {barFrom(TRUE), barTo(TRUE)}

Between(x, a, b) == MinOf({a, b}) <= x /\ x <= MaxOf({a, b})

PositionOK(t, i, n) ==
  /\ t.den >= 1
  /\ t.num * MaxOf({1, n - 1}) = i * t.den
  /\ 0 <= t.num /\ t.num <= t.den
  /\ n = 1 => t.num = 0

\* C15: the position of element i of n is i / max(1, n - 1), lies in
\* [0, 1], is 0 for a single element and never divides by zero; every
\* interpolated RGB channel lies between the two endpoint channels, within
\* 0..255.
C15_PositionAndChannelBounds ==
  result # Null =>
    /\ fn = "barColors" =>
         \A k \in 1..args.n :
           /\ PositionOK(Get(result)[k].t, k - 1, args.n)
           /\ \A ch \in 1..3 :
                /\ Between(Get(result)[k].rgb[ch],
                           hexToRgb(barFrom(args.dark))[ch],
                           hexToRgb(barTo(args.dark))[ch])
                /\ Get(result)[k].rgb[ch] \in 0..255
    /\ fn = "aquaGradient" => PositionOK(Get(result).t, args.idx, args.n)
    /\ fn = "mix" =>
         \A ch \in 1..3 :
           /\ Between(hexToRgb(Get(result))[ch], hexToRgb(args.a)[ch],
                      hexToRgb(args.b)[ch])
           /\ hexToRgb(Get(result))[ch] \in 0..255

\* a histogram of a single bin: position 0, the 'from' colour
C15_Witness ==
  /\ fn = "barColors" /\ result # Null
  /\ args.n = 1
  /\ Get(result)[1].t = Frac(0, 1)
  /\ Get(result)[1].rgb = hexToRgb(barFrom(args.dark))

----------------------------------------------------------------------------
(* The legacy histogram's median *)

MedianVals == 1..4

RECURSIVE insertAsc(_, _)
insertAsc(x, s) ==
  IF s = <<>> THEN <<x>>
  ELSE IF x < Head(s) THEN <<x>> \o s
  ELSE <<Head(s)>> \o insertAsc(x, Tail(s))

RECURSIVE sortAsc(_)
sortAsc(s) == IF s = <<>> THEN <<>> ELSE insertAsc(Head(s), sortAsc(Tail(s)))

unsorted(scores) == scores

\* [...scores].sort((a, b) => a - b)
sorted(scores) == sortAsc(scores)

\* Math.floor(sorted.length / 2), as an index from 0
mid(scores) == Len(sorted(scores)) \div 2

\* sorted.length % 2 === 0 ? (sorted[mid - 1] + sorted[mid]) / 2 : sorted[mid]
median(scores) ==
  IF Len(sorted(scores)) % 2 = 0
  THEN Frac(sorted(scores)[mid(scores)] + sorted(scores)[mid(scores) + 1], 2)
  ELSE Frac(sorted(scores)[mid(scores) + 1], 1)

MedianInit ==
  /\ fn = "median"
  /\ args \in SeqsUpTo(MedianVals, MaxSamples) \ {<<>>}
  /\ result = Null
  /\ ViewIdle /\ GatewayIdle /\ ThemeIdle /\ PagesIdle

\* the legacy histogram renders its non-empty scores
MedianComputed ==
  /\ fn = "median" /\ result = Null
  /\ result' = Some(median(args))
  /\ UNCHANGED <<fn, args, viewVars, gatewayVars, themeVars, pageVars>>

MedianNext == MedianComputed

MedianSpec == MedianInit /\ [][MedianNext]_vars

\* the k-th smallest sample, by counting: fewer than k samples are below it
\* and at least k are not above it
Kth(s, k) ==
  CHOOSE x \in Range(s) :
    /\ Cardinality({i \in 1..Len(s) : s[i] < x}) < k
    /\ Cardinality({i \in 1..Len(s) : s[i] <= x}) >= k

FracEq(a, b) == a.num * b.den = b.num * a.den

\* C16: the legacy median is the central element in ascending order for an
\* odd number of samples and the average of the two central elements for an
\* even number, whatever the order of the input: median([1,2,3,4]) = 2.5
\* and median([1,2,3]) = 2.
C16_MedianMidpointRule ==
  result # Null =>
    LET n == Len(args) IN
    /\ n % 2 = 1 => FracEq(Get(result), Frac(Kth(args, (n + 1) \div 2), 1))
    /\ n % 2 = 0 =>
         FracEq(Get(result),
                Frac(Kth(args, n \div 2) + Kth(args, n \div 2 + 1), 2))
    /\ Range(args) = {1, 2, 3, 4} /\ n = 4 => FracEq(Get(result), Frac(5, 2))
    /\ Range(args) = {1, 2, 3} /\ n = 3 => FracEq(Get(result), Frac(2, 1))

\* [4, 1, 3, 2], out of order, has median 2.5
C16_Witness ==
  /\ fn = "median"
  /\ args = <<4, 1, 3, 2>>
  /\ result = Some(Frac(5, 2))

----------------------------------------------------------------------------
(* Ranking: the series a categorical view draws, as a function of the rows  *)
(* it fetched                                                                *)

RankInit ==
  /\ fn \in {"DocumentsByType", "ViolationsByIndustry"}
  /\ args \in IF fn = "DocumentsByType"
               THEN SeqsUpTo(DocRows, MaxFetched)
               ELSE {ServerOrder(rows, nullsFirst) :
                       rows \in SeqsUpTo(TableRows, MaxRows),
                       nullsFirst \in BOOLEAN}
  /\ result = Null
  /\ ViewIdle /\ GatewayIdle /\ ThemeIdle /\ PagesIdle

\* DocumentsByType groups and sorts the fetched documents
DocumentsRanked ==
  /\ fn = "DocumentsByType" /\ result = Null
  /\ result' = Some(DocumentsByTypeBuckets(args))
  /\ UNCHANGED <<fn, args, viewVars, gatewayVars, themeVars, pageVars>>

\* ViolationsByIndustry draws the rows in the order the server sent them
ViolationsRanked ==
  /\ fn = "ViolationsByIndustry" /\ result = Null
  /\ result' = Some(ViolationsSeries(args))
  /\ UNCHANGED <<fn, args, viewVars, gatewayVars, themeVars, pageVars>>

RankNext ==
  \/ DocumentsRanked
  \/ ViolationsRanked

RankSpec == RankInit /\ [][RankNext]_vars

\* the row in which a content type first occurs among the fetched rows
FirstOccurrence(docRows, type) ==
  MinOf({i \in 1..Len(docRows) :
           Coalesce(docRows[i].content_type, "Unknown") = type})

\* C17: the ranking is stable: categories with equal counts appear in the
\* order of the input, which for the client-side grouping is the order in
\* which each category first occurs among the fetched rows, and for a
\* server-ordered view the order of the fetched rows.
C17_StableRanking ==
  result # Null =>
    LET out == Get(result) IN
    /\ fn = "DocumentsByType" =>
         \A i \in 1..Len(out), j \in 1..Len(out) :
           (i < j /\ out[i].c = out[j].c) =>
             FirstOccurrence(args, out[i].type) < FirstOccurrence(args, out[j].type)
    /\ fn = "ViolationsByIndustry" =>
         /\ Len(out) = Len(args)
         /\ \A i \in 1..Len(out) :
              /\ out[i].value = Coalesce(args[i].cnt, 0)
              /\ out[i].label = Some(Coalesce(args[i].cat, "Unknown"))

\* txt, pdf, txt, pdf: two buckets of two, txt first because it occurs first
C17_Witness ==
  /\ fn = "DocumentsByType"
  /\ args = << [content_type |-> Some("txt")], [content_type |-> Some("pdf")],
               [content_type |-> Some("txt")], [content_type |-> Some("pdf")] >>
  /\ result = Some(<< [type |-> "txt", c |-> 2], [type |-> "pdf", c |-> 2] >>)

----------------------------------------------------------------------------
(* Safe defaults and theme switches of the mounted views *)

CategoricalViews ==
  {"CompaniesByIndustry", "ViolationsByIndustry", "DocumentsByType",
   "DocumentsByTypePie", "InsightsPage"}

\* C18: in every categorical view a null or missing category is drawn as
\* 'Unknown' and a null or missing count as 0: no drawn label is null.
C18_UnknownAndZeroDefaults ==
  (comp \in CategoricalViews /\ "content" \in Rendered) =>
    \A i \in 1..Len(Series) :
      /\ Series[i].label # Null
      /\ Series[i].value \in Nat

\* C19: a chart container issues exactly one data request per mount, and a
\* switch between dark and light changes isDark only: the fetched data,
\* loading, error and the requests made stay as they were.
C19_ThemeSwitchKeepsData ==
  /\ [](comp \in ChartComps => loads = 1)
  /\ [][isDark' # isDark =>
          /\ data' = data /\ loading' = loading /\ error' = error
          /\ loads' = loads /\ pending' = pending]_vars

\* a histogram that was switched to dark and shows the data of its one fetch
C19_Witness ==
  /\ comp = "ComplianceHistogram" /\ mounted
  /\ isDark
  /\ loads = 1 /\ pending = 0 /\ lastLoad = "ok"
  /\ "content" \in Rendered

----------------------------------------------------------------------------
(* The theme preference: ModeToggle (the app shell) and useTheme (the       *)
(* landing and registration pages).  One of the two is mounted; localStorage *)
(* accepts reads and writes.                                                 *)

Themes == {"light", "dark"}
SavedValues == {Null, Some("light"), Some("dark"), Some("system")}

\* ModeToggle: getInitialTheme()
getInitialTheme(sv, prefers) ==
  IF sv = Some("dark") \/ sv = Some("light") THEN Get(sv)
  ELSE IF prefers THEN "dark" ELSE "light"

\* useTheme: the useMemo initialiser
initial(sv, prefers) ==
  IF sv = Some("light") \/ sv = Some("dark") THEN Get(sv)
  ELSE IF prefers THEN "dark" ELSE "light"

applyThemeFlip(th, root) == [rootDark |-> ~root, saved |-> Some(th)]

\* classList.toggle('dark', theme === 'dark') / classList.add / remove, then
\* localStorage.setItem('theme', theme)
applyTheme(th, root) == [rootDark |-> (th = "dark"), saved |-> Some(th)]

\* the state after the first render: the effects are scheduled
ThemeInit ==
  /\ owner \in {"ModeToggle", "useTheme"}
  /\ saved \in SavedValues
  /\ prefersDark \in BOOLEAN
  /\ rootDark \in BOOLEAN
  /\ theme = (IF owner = "ModeToggle" THEN getInitialTheme(saved, prefersDark)
              ELSE initial(saved, prefersDark))
  /\ effectDue = TRUE
  /\ listening = FALSE
  /\ chosen = FALSE
  /\ mountTheme = Some([saved |-> saved, prefersDark |-> prefersDark,
                         theme |-> theme])
  /\ lastSystem = Null
  /\ ViewIdle /\ GatewayIdle /\ CalcIdle /\ PagesIdle

\* the passive effects run: the [theme] effect applies the theme, and on
\* mount useTheme also registers its prefers-color-scheme listener
ThemeEffect ==
  /\ effectDue
  /\ rootDark' = applyTheme(theme, rootDark).rootDark
  /\ saved' = applyTheme(theme, rootDark).saved
  /\ effectDue' = FALSE
  /\ listening' = (owner = "useTheme")
  /\ UNCHANGED <<owner, theme, prefersDark, chosen, mountTheme, lastSystem>>
  /\ UNCHANGED <<viewVars, gatewayVars, calcVars, pageVars>>

\* a click on Dark or Light: setTheme(th); the same theme again re-renders
\* nothing and schedules no effect
SelectTheme ==
  /\ \E th \in Themes :
       /\ theme' = th
       /\ effectDue' = (effectDue \/ th # theme)
  /\ chosen' = TRUE
  /\ UNCHANGED <<owner, rootDark, saved, prefersDark, listening, mountTheme,
                 lastSystem>>
  /\ UNCHANGED <<viewVars, gatewayVars, calcVars, pageVars>>

\* the system colour scheme changes; the listener of useTheme returns when
\* localStorage has a 'theme' entry and follows the system otherwise
SystemSchemeChanged ==
  /\ prefersDark' = ~prefersDark
  /\ IF listening /\ ~Truthy(saved)
     THEN /\ theme' = (IF prefersDark' THEN "dark" ELSE "light")
          /\ effectDue' = (effectDue \/ theme' # theme)
     ELSE UNCHANGED <<theme, effectDue>>
  /\ lastSystem' = Some([heard |-> listening, chosen |-> chosen,
                          before |-> theme, after |-> theme'])
  /\ UNCHANGED <<owner, rootDark, saved, listening, chosen, mountTheme>>
  /\ UNCHANGED <<viewVars, gatewayVars, calcVars, pageVars>>

ThemeNext ==
  \/ ThemeEffect
  \/ SelectTheme
  \/ SystemSchemeChanged

ThemeSpec == ThemeInit /\ [][ThemeNext]_vars

\* C20: the initial theme is the stored value when that is 'light' or
\* 'dark' and the system preference otherwise; once the effects have run,
\* <html> carries class 'dark' exactly when the selected theme is 'dark' and
\* localStorage 'theme' is the selected theme.
C20_ThemePersisted ==
  /\ mountTheme # Null =>
       Get(mountTheme).theme =
         (IF Get(mountTheme).saved \in {Some("light"), Some("dark")}
          THEN Get(Get(mountTheme).saved)
          ELSE IF Get(mountTheme).prefersDark THEN "dark" ELSE "light")
  /\ (owner # "none" /\ ~effectDue) =>
       /\ rootDark <=> (theme = "dark")
       /\ saved = Some(theme)

\* mounted with an unusable stored value on a light system and a dark
\* <html>, then Dark was chosen and the effect has run
C20_Witness ==
  /\ owner = "useTheme"
  /\ Get(mountTheme).saved = Some("system")
  /\ Get(mountTheme).theme = "light"
  /\ chosen /\ ~effectDue
  /\ theme = "dark" /\ rootDark /\ saved = Some("dark")

----------------------------------------------------------------------------
(***************************************************************************)
(* The upload page and its FileDrop.  The page passes disabled =           *)
(* isUploading and onFiles = files => setFile(files?.[0] ?? null).  Two    *)
(* FileDrop components are in the sources: the label-based one ("legacy")  *)
(* and the themed one with a click / keyboard target ("themed").           *)
(***************************************************************************)
MaxUploads == 2
DropKinds == {"legacy", "themed"}
FileNames == {"a.pdf", "b.pdf"}
\* what a drop or a file dialog can deliver: a FileList of 0, 1 or 2 files
FileLists == {<<>>} \cup {<<f>> : f \in FileNames}
               \cup {<<f, g>> : f \in FileNames, g \in FileNames}
\* evt.total and evt.loaded of an upload progress event
ProgressTotals == {0, 3}

besidesUpload == <<viewVars, gatewayVars, themeVars, calcVars, toastVars, qaVars, dbVars, authVars>>
BesidesUploadIdle == ViewIdle /\ GatewayIdle /\ ThemeIdle /\ CalcIdle /\ ToastIdle /\ QaIdle /\ DbIdle /\ AuthIdle

\* the disabled prop of the FileDrop
disabled == isUploading

\* onFiles of the page: setFile(files?.[0] ?? null); `files` is Null or a list
onFiles(files) ==
  IF files = Null \/ files = <<>> THEN Null ELSE Some(Head(files))

UploadInit ==
  /\ dropKind \in DropKinds
  /\ file = Null /\ isUploading = FALSE /\ progress = 0 /\ err = Null
  /\ uphase = "idle" /\ posts = 0 /\ uploads = 0 /\ reloads = 0
  /\ drag = FALSE /\ picker = FALSE
  /\ calledDisabled = FALSE /\ litDisabled = FALSE /\ lastUpload = Null
  /\ uploadToast = "none"
  /\ BesidesUploadIdle

\* dragenter: only the themed FileDrop handles it: stop(e); setDrag(true)
DragEnter ==
  /\ dropKind = "themed"
  /\ drag' = TRUE
  /\ litDisabled' = (litDisabled \/ disabled)
  /\ UNCHANGED <<dropKind, file, isUploading, progress, err, uphase, posts,
                 uploads, reloads, picker, calledDisabled, lastUpload>>
  /\ UNCHANGED uploadToast
  /\ UNCHANGED besidesUpload

\* dragover: the label-based FileDrop returns when disabled and sets
\* dragOver otherwise; the themed one only stops the event
DragOver ==
  /\ drag' = (IF dropKind = "legacy" /\ ~disabled THEN TRUE ELSE drag)
  /\ UNCHANGED <<dropKind, file, isUploading, progress, err, uphase, posts,
                 uploads, reloads, picker, calledDisabled, litDisabled,
                 lastUpload>>
  /\ UNCHANGED uploadToast
  /\ UNCHANGED besidesUpload

\* dragleave: setDrag(false) / setDragOver(false)
DragLeave ==
  /\ drag' = FALSE
  /\ UNCHANGED <<dropKind, file, isUploading, progress, err, uphase, posts,
                 uploads, reloads, picker, calledDisabled, litDisabled,
                 lastUpload>>
  /\ UNCHANGED uploadToast
  /\ UNCHANGED besidesUpload

\* drop.  label-based: if (disabled) return; setDragOver(false);
\* if (files.length) onFiles(files).  themed: stop(e); setDrag(false);
\* if (disabled) return; onFiles(files && files.length ? files : null)
Drop(files) ==
  /\ drag' = (IF dropKind = "legacy" /\ disabled THEN drag ELSE FALSE)
  /\ file' = (IF disabled \/ (dropKind = "legacy" /\ files = <<>>) THEN file
              ELSE onFiles(files))
  /\ UNCHANGED calledDisabled

Dropped ==
  /\ \E files \in FileLists : Drop(files)
  /\ UNCHANGED <<dropKind, isUploading, progress, err, uphase, posts,
                 uploads, reloads, picker, litDisabled, lastUpload>>
  /\ UNCHANGED uploadToast
  /\ UNCHANGED besidesUpload

\* a click on the drop zone, or Enter / space on the themed one:
\* openPicker = () => { if (!disabled) inputRef.current?.click() }; the
\* label of the label-based FileDrop has pointer-events-none and a disabled
\* input when disabled.  The browser's file dialog is modal.
openPicker == IF disabled THEN picker ELSE TRUE

PickerOpened ==
  /\ ~picker
  /\ picker' = openPicker
  /\ UNCHANGED <<dropKind, file, isUploading, progress, err, uphase, posts,
                 uploads, reloads, drag, calledDisabled, litDisabled,
                 lastUpload>>
  /\ UNCHANGED uploadToast
  /\ UNCHANGED besidesUpload

\* the dialog closes with a selection and the input's change event fires.
\* label-based: if (disabled) return; onFiles(Array.from(e.target.files));
\* themed: onFiles(e.target.files)
InputChanged ==
  /\ picker
  /\ picker' = FALSE
  /\ \E files \in FileLists :
       /\ file' = (IF dropKind = "legacy" /\ disabled THEN file
                   ELSE onFiles(files))
       /\ calledDisabled' =
            (calledDisabled \/ (disabled /\ dropKind = "themed"))
  /\ UNCHANGED <<dropKind, isUploading, progress, err, uphase, posts,
                 uploads, reloads, drag, litDisabled, lastUpload>>
  /\ UNCHANGED uploadToast
  /\ UNCHANGED besidesUpload

\* the Clear button: if (!isUploading) { setFile(null); setProgress(0) }
ClearClicked ==
  /\ ~picker
  /\ file' = (IF isUploading THEN file ELSE Null)
  /\ progress' = (IF isUploading THEN progress ELSE 0)
  /\ UNCHANGED <<dropKind, isUploading, err, uphase, posts, uploads, reloads,
                 drag, picker, calledDisabled, litDisabled, lastUpload>>
  /\ UNCHANGED uploadToast
  /\ UNCHANGED besidesUpload

\* doUpload up to its first await: if (!file || isUploading) return;
\* setErr(null); setIsUploading(true); setProgress(0); api.post('/upload')
doUploadUnguarded == file # Null
doUploadGuard == file # Null /\ ~isUploading

UploadClicked ==
  /\ ~picker /\ uploads < MaxUploads
  /\ doUploadGuard
  /\ err' = Null
  /\ isUploading' = TRUE
  /\ progress' = 0
  /\ posts' = posts + 1
  /\ uploads' = uploads + 1
  /\ uphase' = "posting"
  /\ UNCHANGED <<dropKind, file, reloads, drag, picker, calledDisabled,
                 litDisabled, lastUpload>>
  /\ UNCHANGED uploadToast
  /\ UNCHANGED besidesUpload

\* onUploadProgress: if (!evt.total) return;
\* setProgress(Math.round((evt.loaded / evt.total) * 100))
UploadProgressed ==
  /\ uphase = "posting"
  /\ \E total \in ProgressTotals : \E loaded \in 0..total :
       progress' = (IF total = 0 THEN progress
                    ELSE RoundDiv(loaded * 100, total))
  /\ UNCHANGED <<dropKind, file, isUploading, err, uphase, posts, uploads,
                 reloads, drag, picker, calledDisabled, litDisabled,
                 lastUpload>>
  /\ UNCHANGED uploadToast
  /\ UNCHANGED besidesUpload

\* the snapshot taken when doUpload returns
Finished(ok, f, p, e, r) ==
  Some([ok |-> ok, file |-> f, progress |-> p, err |-> e, reloaded |-> r])

\* the POST resolves: toast (success); setFile(null); setProgress(0); await load()
UploadSucceeded ==
  /\ uphase = "posting"
  /\ posts' = posts - 1
  /\ file' = Null
  /\ progress' = 0
  /\ reloads' = reloads + 1
  /\ uphase' = "reloading"
  /\ UNCHANGED <<dropKind, isUploading, err, uploads, drag, picker,
                 calledDisabled, litDisabled, lastUpload>>
  /\ uploadToast' = "success"
  /\ UNCHANGED besidesUpload

\* the POST rejects: setErr(e?.message || 'Upload failed'); toast; and the
\* finally block: setIsUploading(false)
UploadFailed ==
  /\ uphase = "posting"
  /\ posts' = posts - 1
  /\ \E m \in Msgs : err' = Some(MsgOr(m, "Upload failed"))
  /\ isUploading' = FALSE
  /\ uphase' = "idle"
  /\ lastUpload' = Finished(FALSE, file, progress, err', FALSE)
  /\ UNCHANGED <<dropKind, file, progress, uploads, reloads, drag, picker,
                 calledDisabled, litDisabled>>
  /\ uploadToast' = "destructive"
  /\ UNCHANGED besidesUpload

\* the reload settles: load() catches its own error with
\* setErr(e.message || 'Failed to fetch documents'), so doUpload goes on to
\* its finally block either way: setIsUploading(false)
ReloadSettled ==
  /\ uphase = "reloading"
  /\ \/ UNCHANGED err
     \/ \E m \in Msgs : err' = Some(MsgOr(m, "Failed to fetch documents"))
  /\ isUploading' = FALSE
  /\ uphase' = "idle"
  /\ lastUpload' = Finished(TRUE, file, progress, err', TRUE)
  /\ UNCHANGED <<dropKind, file, progress, posts, uploads, reloads, drag,
                 picker, calledDisabled, litDisabled>>
  /\ UNCHANGED uploadToast
  /\ UNCHANGED besidesUpload

UploadNext ==
  \/ DragEnter
  \/ DragOver
  \/ DragLeave
  \/ Dropped
  \/ PickerOpened
  \/ InputChanged
  \/ ClearClicked
  \/ UploadClicked
  \/ UploadProgressed
  \/ UploadSucceeded
  \/ UploadFailed
  \/ ReloadSettled

UploadSpec == UploadInit /\ [][UploadNext]_vars

\* C21: while the FileDrop is disabled no drag-over, drop, click, key press
\* or input change calls onFiles (so the page's selected file cannot change
\* through it during an upload), and the drag highlight is not turned on.
C21_DisabledIgnoresInput == ~calledDisabled /\ ~litDisabled

\* C27 as stated: at most one POST /upload is in flight; isUploading is
\* true exactly while it is in flight; when doUpload has finished the flag
\* is false, and then a successful upload has cleared the file, reset the
\* progress and reloaded the list, a failed one has kept the file and set a
\* message.
UploadOutcomeOK ==
  lastUpload # Null =>
    IF Get(lastUpload).ok
    THEN /\ Get(lastUpload).file = Null
         /\ Get(lastUpload).progress = 0
         /\ Get(lastUpload).reloaded
    ELSE /\ Get(lastUpload).file # Null
         /\ Truthy(Get(lastUpload).err)
C27_UploadSingleFlight ==
  /\ posts <= 1
  /\ isUploading <=> (posts = 1)
  /\ UploadOutcomeOK

\* C27 amended: at most one POST /upload is in flight; isUploading is true
\* from the start of doUpload until the POST has failed or, after a
\* success, the reload of the document list has settled, and it is false
\* whenever doUpload is not running; the outcomes are as stated.
C27_FlagCoversReload ==
  /\ posts <= 1
  /\ (posts = 1) <=> (uphase = "posting")
  /\ isUploading <=> (uphase \in {"posting", "reloading"})
  /\ UploadOutcomeOK

\* a second upload has failed after a first one succeeded
C27_Witness ==
  /\ uploads = 2 /\ reloads = 1 /\ uphase = "idle"
  /\ lastUpload # Null /\ ~Get(lastUpload).ok
  /\ file # Null /\ Truthy(err) /\ ~isUploading

----------------------------------------------------------------------------
(***************************************************************************)
(* ToastProvider: toast() appends a toast whose id is                      *)
(* Date.now() + Math.random() and arms a 4000 ms timer that filters the    *)
(* id out; dismiss(id) filters the id out at once.  Time advances in       *)
(* steps of a quarter of the delay; calls of toast() between two steps     *)
(* read the same Date.now(), and the sum of the clock and the random       *)
(* fraction is a double with finitely many values per clock value.         *)
(***************************************************************************)
MaxToasts == 3
MaxTime == 5
ToastDelay == 4
\* the values Date.now() + Math.random() can take for one clock value
Fractions == {0, 1}

besidesToast == <<viewVars, gatewayVars, themeVars, calcVars, uploadVars, qaVars, dbVars, authVars>>
BesidesToastIdle == ViewIdle /\ GatewayIdle /\ ThemeIdle /\ CalcIdle /\ UploadIdle /\ QaIdle /\ DbIdle /\ AuthIdle

\* prev.filter((x) => x.id !== id)
without(prev, id) == SelectSeq(prev, LAMBDA x : x.id # id)

ToastInit ==
  /\ now = 0 /\ toasts = <<>> /\ timers = {} /\ toastsMade = 0
  /\ dismissedToasts = {} /\ removedOther = FALSE /\ staleTimerActed = FALSE
  /\ BesidesToastIdle

\* toast(t): const id = Date.now() + Math.random();
\* setToasts(prev => [...prev, { id, ...t }]); setTimeout(..., 4000).
\* `n` numbers the calls and `at` is the time of the call (history fields)
ToastAdded ==
  /\ toastsMade < MaxToasts
  /\ \E r \in Fractions :
       LET id == <<now, r>>
           n  == toastsMade + 1
       IN /\ toasts' = Append(toasts, [id |-> id, n |-> n, at |-> now])
          /\ timers' = timers \cup {[id |-> id, n |-> n, due |-> now + ToastDelay]}
  /\ toastsMade' = toastsMade + 1
  /\ UNCHANGED <<now, dismissedToasts, removedOther, staleTimerActed>>
  /\ UNCHANGED besidesToast

\* a click on the button of a rendered toast: dismiss(t.id)
Dismissed ==
  /\ \E i \in DOMAIN toasts :
       /\ toasts' = without(toasts, toasts[i].id)
       /\ dismissedToasts' = dismissedToasts \cup {toasts[i].n}
       /\ removedOther' =
            (removedOther \/ \E j \in DOMAIN toasts :
                                j # i /\ toasts[j].id = toasts[i].id)
  /\ UNCHANGED <<now, timers, toastsMade, staleTimerActed>>
  /\ UNCHANGED besidesToast

\* a timer runs when its delay has passed:
\* setToasts(prev => prev.filter((x) => x.id !== id))
TimerFired ==
  /\ \E t \in timers :
       /\ now >= t.due
       /\ toasts' = without(toasts, t.id)
       /\ timers' = timers \ {t}
       /\ staleTimerActed' =
            (staleTimerActed \/ (t.n \in dismissedToasts /\ toasts' # toasts))
  /\ UNCHANGED <<now, toastsMade, dismissedToasts, removedOther>>
  /\ UNCHANGED besidesToast

\* time passes; a timer that is due runs before the clock moves on
Tick ==
  /\ now < MaxTime
  /\ \A t \in timers : t.due > now
  /\ now' = now + 1
  /\ UNCHANGED <<toasts, timers, toastsMade, dismissedToasts, removedOther,
                 staleTimerActed>>
  /\ UNCHANGED besidesToast

ToastNext ==
  \/ ToastAdded
  \/ Dismissed
  \/ TimerFired
  \/ Tick

ToastSpec == ToastInit /\ [][ToastNext]_vars

\* C22: no toast stays in the list for more than the 4 seconds of its
\* timer, so every toast added is removed by then; dismiss(id) removes
\* exactly the one toast dismissed and keeps the others in order, and the
\* timer of a toast that was dismissed removes nothing.
C22_ToastsExpire ==
  /\ \A i \in DOMAIN toasts : now - toasts[i].at <= ToastDelay
  /\ ~removedOther
  /\ ~staleTimerActed

\* C23: a change of the system colour scheme that reaches useTheme's
\* listener makes the theme match the system when the user has never chosen
\* a theme (nothing was stored at mount and no button was pressed), and
\* leaves the theme alone once the user has chosen.
C23_SystemThemeSync ==
  (lastSystem # Null /\ Get(lastSystem).heard) =>
    IF Get(lastSystem).chosen
    THEN Get(lastSystem).after = Get(lastSystem).before
    ELSE Get(mountTheme).saved = Null =>
           Get(lastSystem).after = (IF prefersDark THEN "dark" ELSE "light")

\* C24: a mounted fetch-on-mount container shows its loading flag only
\* while a fetch of its own is unsettled: once the fetch has settled
\* (success, error result or rejection) the flag is false, and it is true
\* again only when a new fetch has been started.
C24_LoadingEnds ==
  (comp \in ChartComps /\ mounted /\ loading) => pending > 0

----------------------------------------------------------------------------
(***************************************************************************)
(* QAPage: ask() appends the user's message, posts the question to /qa     *)
(* and appends the assistant's reply or an error bubble.  Each handler     *)
(* runs against the latest render: the updates of a click or key press     *)
(* are flushed before the next event is dispatched.                        *)
(***************************************************************************)
MaxAsks == 2
\* what the textarea can hold
Questions == {"", " ", "hi", " hi "}
\* data?.answer of a 2xx response
Answers == {Null, Some("42")}

besidesQa == <<viewVars, gatewayVars, themeVars, calcVars, uploadVars, toastVars, dbVars, authVars>>
BesidesQaIdle == ViewIdle /\ GatewayIdle /\ ThemeIdle /\ CalcIdle /\ UploadIdle /\ ToastIdle /\ DbIdle /\ AuthIdle

\* String.prototype.trim on the strings of Questions
trim(s) == CASE s = " " -> "" [] s = " hi " -> "hi" [] OTHER -> s

\* the early returns of ask(): if (loading) return; if (!text) return
askIgnoringLoading(text) == text # ""
askGuard(text) == ~qaLoading /\ text # ""

\* the bubble appended when the request settles
replySwapped(ok, answer, m) ==
  IF ok THEN [role |-> "error", content |-> Coalesce(answer, "")]
  ELSE [role |-> "assistant", content |-> MsgOr(m, "Request failed")]
reply(ok, answer, m) ==
  IF ok THEN [role |-> "assistant", content |-> Coalesce(answer, "")]
  ELSE [role |-> "error", content |-> MsgOr(m, "Request failed")]

QaInit ==
  /\ question = "" /\ qaLoading = FALSE /\ messages = <<>>
  /\ qaInflight = 0 /\ asks = 0 /\ outcomes = <<>> /\ lastAsk = Null
  /\ refused = FALSE
  /\ BesidesQaIdle

\* ask(): text = q.trim(); after the guards: setMessages([...prev, userMsg]);
\* setQ(''); setLoading(true); api.post('/qa', { question: text })
ask ==
  LET text == trim(question)
  IN IF askGuard(text)
     THEN /\ asks < MaxAsks
          /\ messages' = Append(messages, [role |-> "user", content |-> text])
          /\ question' = ""
          /\ qaLoading' = TRUE
          /\ qaInflight' = qaInflight + 1
          /\ asks' = asks + 1
          /\ lastAsk' = Some([loading |-> qaLoading, text |-> text])
          /\ UNCHANGED refused
     ELSE /\ refused' = (refused \/ qaInflight > 0)
          /\ UNCHANGED <<question, qaLoading, messages, qaInflight, asks, lastAsk>>

\* the textarea's onChange: setQ(e.target.value)
Typed ==
  /\ \E s \in Questions : question' = s
  /\ UNCHANGED <<qaLoading, messages, qaInflight, asks, outcomes, lastAsk, refused>>
  /\ UNCHANGED besidesQa

\* the Send button: disabled={!q.trim() || loading}, onClick={() => ask()}
SendClicked ==
  /\ ~(trim(question) = "" \/ qaLoading)
  /\ ask
  /\ UNCHANGED outcomes
  /\ UNCHANGED besidesQa

\* onKeyDown with Enter: forceSend = ctrlKey || metaKey, newLine = shiftKey;
\* if (forceSend || (!newLine && !loading)) ask()
EnterPressed ==
  /\ \E forceSend \in BOOLEAN, newLine \in BOOLEAN :
       IF forceSend \/ (~newLine /\ ~qaLoading)
       THEN ask
       ELSE UNCHANGED <<question, qaLoading, messages, qaInflight, asks,
                        lastAsk, refused>>
  /\ UNCHANGED outcomes
  /\ UNCHANGED besidesQa

\* the request settles: the reply is appended and finally setLoading(false)
QaSettled ==
  /\ qaInflight > 0
  /\ \E ok \in BOOLEAN, answer \in Answers, m \in Msgs :
       /\ messages' = Append(messages, reply(ok, answer, m))
       /\ outcomes' = Append(outcomes, ok)
  /\ qaLoading' = FALSE
  /\ qaInflight' = qaInflight - 1
  /\ UNCHANGED <<question, asks, lastAsk, refused>>
  /\ UNCHANGED besidesQa

QaNext ==
  \/ Typed
  \/ SendClicked
  \/ EnterPressed
  \/ QaSettled

QaSpec == QaInit /\ [][QaNext]_vars

\* a request that was issued settles, with a response or with an error, and
\* its continuation runs
QaFairSpec == QaSpec /\ WF_vars(QaSettled)

\* C25: at most one POST /qa is in flight; a request is issued only when
\* loading is false and the trimmed question is non-empty; loading is true
\* exactly while the request is in flight, so it is false again once the
\* request has settled.
C25_SingleQuestionInFlight ==
  /\ qaInflight <= 1
  /\ qaLoading <=> (qaInflight = 1)
  /\ lastAsk # Null => (~Get(lastAsk).loading /\ Get(lastAsk).text # "")

\* two questions were asked one after the other, and a send attempt made
\* while the first was in flight was ignored
C25_Witness ==
  /\ asks = 2 /\ refused /\ qaInflight = 0 /\ ~qaLoading /\ Len(messages) = 4

IsPrefix(s, t) == Len(s) <= Len(t) /\ SubSeq(t, 1, Len(s)) = s

Alternating ==
  /\ \A i \in DOMAIN messages :
       IF i % 2 = 1 THEN messages[i].role = "user"
       ELSE /\ i \div 2 <= Len(outcomes)
            /\ messages[i].role =
                 (IF outcomes[i \div 2] THEN "assistant" ELSE "error")
  /\ Len(outcomes) = Len(messages) \div 2
  /\ (Len(messages) % 2 = 1) <=> qaLoading

\* C26: the message list only grows at its end and alternates user message,
\* reply; the reply has role 'assistant' when its request succeeded and
\* 'error' when it failed; a user message without its reply is the last
\* message and its request is in flight, and it eventually gets its reply.
C26_AlternatingReplies ==
  /\ []Alternating
  /\ [][IsPrefix(messages, messages')]_vars
  /\ (Len(messages) % 2 = 1) ~> (Len(messages) % 2 = 0)

\* a failed question followed by an answered one
C26_Witness ==
  /\ Len(messages) = 4
  /\ messages[2].role = "error" /\ messages[4].role = "assistant"
  /\ outcomes = <<FALSE, TRUE>>

----------------------------------------------------------------------------
(***************************************************************************)
(* DbAuditPage: 'Get facts' clears checks and requests /db/facts, 'Run     *)
(* audit' clears facts and requests /db/audit; each button is disabled     *)
(* only by its own loading flag and by an empty DSN.                       *)
(***************************************************************************)
MaxDbCalls == 3
Dsns == {"", "postgres://db"}
\* the body of a 2xx response of /db/facts and of /db/audit
FactsBodies == {"facts1", "facts2"}
AuditBodies == {<<>>, <<"check1">>}

besidesDb == <<viewVars, gatewayVars, themeVars, calcVars, uploadVars, toastVars, qaVars, authVars>>
BesidesDbIdle == ViewIdle /\ GatewayIdle /\ ThemeIdle /\ CalcIdle /\ UploadIdle /\ ToastIdle /\ QaIdle /\ AuthIdle

\* what the page renders: {facts && ...} and {filteredChecks && ...}
factsPanel == facts # Null
resultsTable == checks # Null

DbInit ==
  /\ dsn \in Dsns
  /\ facts = Null /\ checks = Null
  /\ loadingFacts = FALSE /\ loadingAudit = FALSE
  /\ factsInflight = 0 /\ auditInflight = 0 /\ dbCalls = 0
  /\ issuedEmpty = FALSE /\ dbToast = "none"
  /\ BesidesDbIdle

\* the DSN input: setDsn(e.target.value)
DsnTyped ==
  /\ \E d \in Dsns : dsn' = d
  /\ UNCHANGED <<facts, checks, loadingFacts, loadingAudit, factsInflight,
                 auditInflight, dbCalls, issuedEmpty, dbToast>>
  /\ UNCHANGED besidesDb

\* 'Get facts' (disabled={loadingFacts || !dsn}): fetchFacts up to its
\* await: if (!dsn) return; setLoadingFacts(true); setChecks(null)
FactsClicked ==
  /\ ~(loadingFacts \/ dsn = "")
  /\ dbCalls < MaxDbCalls
  /\ IF dsn = "" THEN UNCHANGED <<loadingFacts, checks, factsInflight, dbCalls>>
     ELSE /\ loadingFacts' = TRUE
          /\ checks' = Null
          /\ factsInflight' = factsInflight + 1
          /\ dbCalls' = dbCalls + 1
  /\ issuedEmpty' = (issuedEmpty \/ (factsInflight' > factsInflight /\ dsn = ""))
  /\ UNCHANGED <<dsn, facts, loadingAudit, auditInflight, dbToast>>
  /\ UNCHANGED besidesDb

\* 'Run audit' (disabled={loadingAudit || !dsn}): runAudit up to its await:
\* if (!dsn) return; setLoadingAudit(true); setFacts(null)
AuditClicked ==
  /\ ~(loadingAudit \/ dsn = "")
  /\ dbCalls < MaxDbCalls
  /\ IF dsn = "" THEN UNCHANGED <<loadingAudit, facts, auditInflight, dbCalls>>
     ELSE /\ loadingAudit' = TRUE
          /\ facts' = Null
          /\ auditInflight' = auditInflight + 1
          /\ dbCalls' = dbCalls + 1
  /\ issuedEmpty' = (issuedEmpty \/ (auditInflight' > auditInflight /\ dsn = ""))
  /\ UNCHANGED <<dsn, checks, loadingFacts, factsInflight, dbToast>>
  /\ UNCHANGED besidesDb

\* /db/facts settles: setFacts(data), or the failure toast; finally
\* setLoadingFacts(false)
FactsSettled ==
  /\ factsInflight > 0
  /\ \/ \E body \in FactsBodies : facts' = Some(body) /\ UNCHANGED dbToast
     \/ UNCHANGED facts /\ dbToast' = "destructive"
  /\ loadingFacts' = FALSE
  /\ factsInflight' = factsInflight - 1
  /\ UNCHANGED <<dsn, checks, loadingAudit, auditInflight, dbCalls, issuedEmpty>>
  /\ UNCHANGED besidesDb

\* /db/audit settles: setChecks(normalizeChecks(data)) and the success
\* toast, or the failure toast; finally setLoadingAudit(false)
AuditSettled ==
  /\ auditInflight > 0
  /\ \/ \E body \in AuditBodies : checks' = Some(body) /\ dbToast' = "success"
     \/ UNCHANGED checks /\ dbToast' = "destructive"
  /\ loadingAudit' = FALSE
  /\ auditInflight' = auditInflight - 1
  /\ UNCHANGED <<dsn, facts, loadingFacts, factsInflight, dbCalls, issuedEmpty>>
  /\ UNCHANGED besidesDb

DbNext ==
  \/ DsnTyped
  \/ FactsClicked
  \/ AuditClicked
  \/ FactsSettled
  \/ AuditSettled

DbSpec == DbInit /\ [][DbNext]_vars

\* C28: after any interleaving of 'Get facts' and 'Run audit' clicks and of
\* their responses at most one of facts and checks is non-null, so the facts
\* panel and the results table are never rendered together; and no request
\* is issued with an empty DSN.
C28_FactsXorChecks ==
  /\ ~(factsPanel /\ resultsTable)
  /\ ~issuedEmpty

----------------------------------------------------------------------------
(***************************************************************************)
(* Registration, AuthGate and logout.  Register writes the local-storage   *)
(* entry 'pendingOnboarding' and, when sign-up returns a session, calls    *)
(* create_org_and_join itself; otherwise AuthGate.finish calls it after    *)
(* the first sign-in.  The auth client delivers an auth state change to    *)
(* its subscribers as part of the change, and getSession() resolves with   *)
(* the session the client holds at that moment.                            *)
(***************************************************************************)
MaxAuthSteps == 3
\* the trimmed full name / organisation name of the registration form
FormNames == {"", "Acme"}
\* how a supabase call settles: data, an error result, or a rejection
RpcOutcomes == {"ok", "error", "throw"}

besidesAuth == <<viewVars, gatewayVars, themeVars, calcVars, uploadVars, toastVars, qaVars, dbVars>>
BesidesAuthIdle == ViewIdle /\ GatewayIdle /\ ThemeIdle /\ CalcIdle /\ UploadIdle /\ ToastIdle /\ QaIdle /\ DbIdle

\* what AuthGate renders: if (!ready) Loading; if (!authed) Navigate; children
gateRendersAuthedFirst ==
  IF ~authed THEN "redirect" ELSE IF ~ready THEN "loading" ELSE "children"
gateRenders ==
  IF ~ready THEN "loading" ELSE IF ~authed THEN "redirect" ELSE "children"

\* the auth client changes its session and calls the gate's listener:
\* setAuthed(!!session); setReady(true)
AuthStateChange(present) ==
  /\ signedIn' = present
  /\ IF gateMounted
     THEN authed' = present /\ ready' = TRUE /\ lastEvent' = Some(present)
     ELSE UNCHANGED <<authed, ready, lastEvent>>

\* localStorage.removeItem('pendingOnboarding'), with its cause recorded
removeItem(cause) ==
  /\ pendingOnboarding' = Null
  /\ removedBy' = (IF pendingOnboarding # Null THEN cause ELSE removedBy)

AuthInit ==
  /\ signedIn = FALSE /\ hasOrg = FALSE /\ pendingOnboarding = Null
  /\ regPhase = "idle" /\ gateMounted = FALSE /\ ready = FALSE
  /\ authed = FALSE /\ gatePhase = "none" /\ outPhase = "idle"
  /\ lastEvent = Null /\ removedBy = "none" /\ lastRpcError = Null
  /\ authSteps = 0
  /\ BesidesAuthIdle

\* Register: onRegister up to its first await: supabase.auth.signUp(...)
RegisterSubmitted ==
  /\ ~gateMounted /\ regPhase = "idle" /\ ~signedIn /\ authSteps < MaxAuthSteps
  /\ regPhase' = "signUp"
  /\ authSteps' = authSteps + 1
  /\ UNCHANGED <<signedIn, hasOrg, pendingOnboarding, gateMounted, ready,
                 authed, gatePhase, outPhase, lastEvent, removedBy,
                 lastRpcError>>
  /\ UNCHANGED besidesAuth

\* signUp settles.  On an error: setErr, return.  Otherwise the entry is
\* written; with a session the RPC is called, without one the page goes to
\* /login
SignUpSettled ==
  /\ regPhase = "signUp"
  /\ \/ /\ regPhase' = "idle"
        /\ UNCHANGED <<signedIn, pendingOnboarding, authed, ready, lastEvent>>
     \/ \E full \in FormNames, org \in FormNames, withSession \in BOOLEAN :
          /\ pendingOnboarding' = Some([full_name |-> full, org_name |-> org])
          /\ AuthStateChange(withSession)
          /\ regPhase' = (IF withSession THEN "rpc" ELSE "idle")
  /\ UNCHANGED <<hasOrg, gateMounted, gatePhase, outPhase, removedBy,
                 lastRpcError, authSteps>>
  /\ UNCHANGED besidesAuth

\* Register: the RPC settles: if (rpcErr) { setErr; return };
\* localStorage.removeItem('pendingOnboarding'); nav('/company')
RegisterRpcSettled ==
  /\ regPhase = "rpc"
  /\ \E outcome \in RpcOutcomes :
       IF outcome = "ok"
       THEN hasOrg' = TRUE /\ removeItem("rpcOk") /\ UNCHANGED lastRpcError
       ELSE /\ UNCHANGED <<hasOrg, pendingOnboarding, removedBy>>
            /\ lastRpcError' = Some([before |-> pendingOnboarding,
                                     after |-> pendingOnboarding'])
  /\ regPhase' = "idle"
  /\ UNCHANGED <<signedIn, gateMounted, ready, authed, gatePhase, outPhase,
                 lastEvent, authSteps>>
  /\ UNCHANGED besidesAuth

\* the login page signs the user in, or another tab does
SignedIn ==
  /\ ~signedIn /\ regPhase = "idle" /\ authSteps < MaxAuthSteps
  /\ AuthStateChange(TRUE)
  /\ authSteps' = authSteps + 1
  /\ UNCHANGED <<hasOrg, pendingOnboarding, regPhase, gateMounted, gatePhase,
                 outPhase, removedBy, lastRpcError>>
  /\ UNCHANGED besidesAuth

\* the session ends without a logout (expired, revoked, other tab)
SessionEnded ==
  /\ signedIn /\ regPhase = "idle" /\ authSteps < MaxAuthSteps
  /\ AuthStateChange(FALSE)
  /\ authSteps' = authSteps + 1
  /\ UNCHANGED <<hasOrg, pendingOnboarding, regPhase, gateMounted, gatePhase,
                 outPhase, removedBy, lastRpcError>>
  /\ UNCHANGED besidesAuth

\* a protected route is entered: AuthGate mounts with ready = authed = false,
\* its effect calls finish() and subscribes to auth state changes
GateMounted ==
  /\ ~gateMounted /\ gatePhase \in {"none", "done"}
  /\ regPhase = "idle" /\ outPhase = "idle"
  /\ gateMounted' = TRUE
  /\ ready' = FALSE
  /\ authed' = FALSE
  /\ lastEvent' = Null
  /\ gatePhase' = "getSession"
  /\ UNCHANGED <<signedIn, hasOrg, pendingOnboarding, regPhase, outPhase,
                 removedBy, lastRpcError, authSteps>>
  /\ UNCHANGED besidesAuth

\* the effect's cleanup: mounted = false; unsubscribe
GateUnmounted ==
  /\ gateMounted /\ outPhase = "idle"
  /\ gateMounted' = FALSE
  /\ UNCHANGED <<signedIn, hasOrg, pendingOnboarding, regPhase, ready, authed,
                 gatePhase, outPhase, lastEvent, removedBy, lastRpcError,
                 authSteps>>
  /\ UNCHANGED besidesAuth

\* finish(): getSession() resolves: if (!mounted) return;
\* setAuthed(!!session); setReady(true); with a session the profile is read
GetSessionResolved ==
  /\ gatePhase = "getSession"
  /\ IF gateMounted
     THEN /\ authed' = signedIn
          /\ ready' = TRUE
          /\ gatePhase' = (IF signedIn THEN "profile" ELSE "done")
     ELSE /\ gatePhase' = "done"
          /\ UNCHANGED <<authed, ready>>
  /\ UNCHANGED <<signedIn, hasOrg, pendingOnboarding, regPhase, gateMounted,
                 outPhase, lastEvent, removedBy, lastRpcError, authSteps>>
  /\ UNCHANGED besidesAuth

\* the payload tests of finish(): raw, payload?.org_name, payload?.full_name
payloadUsable ==
  /\ pendingOnboarding # Null
  /\ Get(pendingOnboarding).org_name # ""
  /\ Get(pendingOnboarding).full_name # ""

\* finish(): the profile query settles.  A rejection ends in the empty
\* catch; otherwise, if (!prof.data?.org_id) and the stored payload is
\* usable, create_org_and_join is called
ProfileSettled ==
  /\ gatePhase = "profile"
  /\ \E outcome \in RpcOutcomes :
       LET org_id == (outcome = "ok" /\ hasOrg)
       IN gatePhase' = (IF outcome # "throw" /\ ~org_id /\ payloadUsable
                        THEN "rpc" ELSE "done")
  /\ UNCHANGED <<signedIn, hasOrg, pendingOnboarding, regPhase, gateMounted,
                 ready, authed, outPhase, lastEvent, removedBy, lastRpcError,
                 authSteps>>
  /\ UNCHANGED besidesAuth

\* finish(): await supabase.rpc('create_org_and_join', ...) settles; the
\* result is not looked at: localStorage.removeItem('pendingOnboarding')
\* follows unless the call rejected (empty catch)
GateRpcSettled ==
  /\ gatePhase = "rpc"
  /\ \E outcome \in RpcOutcomes :
       /\ hasOrg' = (hasOrg \/ outcome = "ok")
       /\ IF outcome = "throw"
          THEN UNCHANGED <<pendingOnboarding, removedBy>>
          ELSE removeItem(IF outcome = "ok" THEN "rpcOk" ELSE "rpcError")
       /\ lastRpcError' =
            (IF outcome = "ok" THEN lastRpcError
             ELSE Some([before |-> pendingOnboarding,
                        after |-> pendingOnboarding']))
  /\ gatePhase' = "done"
  /\ UNCHANGED <<signedIn, regPhase, gateMounted, ready, authed, outPhase,
                 lastEvent, authSteps>>
  /\ UNCHANGED besidesAuth

\* Sidebar.onLogout up to its await: supabase.auth.signOut()
LogoutClicked ==
  /\ gateMounted /\ outPhase = "idle" /\ authSteps < MaxAuthSteps
  /\ outPhase' = "signOut"
  /\ authSteps' = authSteps + 1
  /\ UNCHANGED <<signedIn, hasOrg, pendingOnboarding, regPhase, gateMounted,
                 ready, authed, gatePhase, lastEvent, removedBy, lastRpcError>>
  /\ UNCHANGED besidesAuth

\* signOut settles (the session is dropped, or the call fails); finally:
\* localStorage.removeItem('pendingOnboarding'); navigate('/login'), which
\* unmounts the gate
LogoutSettled ==
  /\ outPhase = "signOut"
  /\ \/ signedIn /\ AuthStateChange(FALSE)
     \/ UNCHANGED <<signedIn, authed, ready, lastEvent>>
  /\ removeItem("logout")
  /\ gateMounted' = FALSE
  /\ outPhase' = "idle"
  /\ UNCHANGED <<hasOrg, regPhase, gatePhase, lastRpcError, authSteps>>
  /\ UNCHANGED besidesAuth

AuthNext ==
  \/ RegisterSubmitted
  \/ SignUpSettled
  \/ RegisterRpcSettled
  \/ SignedIn
  \/ SessionEnded
  \/ GateMounted
  \/ GateUnmounted
  \/ GetSessionResolved
  \/ ProfileSettled
  \/ GateRpcSettled
  \/ LogoutClicked
  \/ LogoutSettled

AuthSpec == AuthInit /\ [][AuthNext]_vars

\* C29: a mounted gate renders the protected children only when ready and
\* authed are both true, renders only the loading placeholder while ready
\* is false, and redirects to /login when ready is true and there is no
\* session; after auth state change events authed is whether the session
\* of the latest event is present.
C29_GateRendering ==
  gateMounted =>
    /\ gateRenders = "children" => (ready /\ authed)
    /\ ~ready => gateRenders = "loading"
    /\ (ready /\ ~signedIn) => gateRenders = "redirect"
    /\ lastEvent # Null => (authed <=> Get(lastEvent))

\* the gate showed the children and then received the event of the session
\* ending: it redirects
C29_Witness ==
  /\ gateMounted /\ ready /\ ~authed /\ lastEvent = Some(FALSE)
  /\ gatePhase \in {"profile", "rpc"} /\ gateRenders = "redirect"

\* C30: the entry 'pendingOnboarding' is removed only after
\* create_org_and_join completed without error, or on logout; and an RPC
\* that reports an error leaves an entry that was present in place.
C30_OnboardingRetryable ==
  /\ removedBy \in {"none", "rpcOk", "logout"}
  /\ (lastRpcError # Null /\ Get(lastRpcError).before # Null) =>
       Get(lastRpcError).after # Null

====
